---------------------------- MODULE Spec2Model ----------------------------
(***************************************************************************)
(* State-machine model of app-router-sdk: the route tree builder           *)
(* (parseRoutes), the import aggregator, the two code emitters and the     *)
(* watch-mode coordinator (handleFileEvent / writeSdks).                   *)
(*                                                                         *)
(* Text is modelled at token granularity: a text is a sequence of lines, a *)
(* line a sequence of tokens, a token a sequence of strings.  An           *)
(* identifier foo is <<"foo">>, the suffixed identifier foo_1 is           *)
(* <<"foo", "1">> (parts are joined by '_'), the undefined / empty         *)
(* identifier is <<>>.  A directory name is a record of its decoration and *)
(* its core, so that startsWith / endsWith / slice are computed, not       *)
(* assumed.                                                                *)
(***************************************************************************)
EXTENDS Integers, Sequences, FiniteSets, TLC

VARIABLES
    fs,           \* the app directory: existing directories and route.ts files
    project,      \* ts-morph project: route.ts path -> cached source file
    currentTree,  \* the live route tree
    phase,        \* "start" | "parsed" | "watching"
    queue,        \* chokidar notifications not yet emitted
    runs,         \* handleFileEvent invocations, in start order
    disk,         \* the two artifacts on disk
    lastRaw,      \* artifact texts of the latest writeSdks, before formatting
    gens,         \* number of writeSdks calls so far
    nOps,         \* number of file-system operations performed by the user
    crashed       \* an unhandled rejection escaped a watcher callback

vars == <<fs, project, currentTree, phase, queue, runs, disk, lastRaw, gens, nOps, crashed>>

-----------------------------------------------------------------------------
(* Bounds of the model *)

MaxFiles == 3
MaxWatchFiles == 2
MaxOps == 2
MaxGens == 2
MaxPage == 6

-----------------------------------------------------------------------------
(* Sequence helpers *)

Range(s) == { s[i] : i \in 1..Len(s) }

RECURSIVE Concat(_)
Concat(ss) == IF ss = <<>> THEN <<>> ELSE Head(ss) \o Concat(Tail(ss))

IsPrefix(p, s) == Len(p) <= Len(s) /\ SubSeq(s, 1, Len(p)) = p

IsProperPrefix(p, s) == Len(p) < Len(s) /\ SubSeq(s, 1, Len(p)) = p

Perms(S) == { p \in [1..Cardinality(S) -> S] : \A i, j \in 1..Cardinality(S) : p[i] = p[j] => i = j }

-----------------------------------------------------------------------------
(* Directory names and the string tests the code applies to them *)

Name(pre, core, suf) == [pre |-> pre, core |-> core, suf |-> suf]

nUsers == Name("", "users", "")
nApi   == Name("", "api", "")
nApiUp == Name("", "API", "")
nGroup == Name("(", "g", ")")
nGroupH == Name("(", "h", ")")
nId    == Name("[", "id", "]")
nSlug  == Name("[...", "slug", "]")

startsWithParen(n)   == n.pre = "("
endsWithParen(n)     == n.suf = ")"
startsWithBracket(n) == n.pre \in {"[", "[..."}
startsWithSpread(n)  == n.pre = "[..."
endsWithBracket(n)   == n.suf = "]"
startsWithDot(n)     == n.pre = "."

\* seg.slice(4, -1) and seg.slice(1, -1); the code applies them only to [...x] and [x]
sliceSpread(n)  == Name("", n.core, "")
sliceBracket(n) == Name("", n.core, "")

toLowerCase(n) ==
    [n EXCEPT !.core = CASE n.core \in {"api", "Api", "API"} -> "api"
                         [] OTHER -> n.core]

toUpperCase(n) ==
    [n EXCEPT !.core = CASE n.core \in {"api", "API"} -> "API"
                         [] n.core = "users" -> "USERS"
                         [] n.core = "g" -> "G"
                         [] n.core = "h" -> "H"
                         [] n.core = "id" -> "ID"
                         [] n.core = "slug" -> "SLUG"
                         [] OTHER -> n.core]

-----------------------------------------------------------------------------
(* Tokens, identifiers and type texts *)

Tok(s) == <<s>>

NoIdent == <<>>

tUnknown == <<Tok("unknown")>>
tVoid    == <<Tok("void")>>

\* `${id}_${occ}` for occ >= 1
Suffixed(id, occ) == id \o <<ToString(occ)>>

\* code.includes(name) for an identifier: as text, foo occurs in foo and in foo_1
TokIncludes(tok, name) == name # <<>> /\ IsPrefix(name, tok)

TextIncludesName(text, name) ==
    \E i \in 1..Len(text) : \E j \in 1..Len(text[i]) : TokIncludes(text[i][j], name)

\* code.includes(pattern) for a pattern of whole tokens
LineIncludes(line, pattern) ==
    \E j \in 1..(Len(line) - Len(pattern) + 1) : SubSeq(line, j, j + Len(pattern) - 1) = pattern

TextIncludes(text, pattern) == \E i \in 1..Len(text) : LineIncludes(text[i], pattern)

\* a quoted string literal
StrTok(s) == <<"'", s, "'">>

\* a numeric literal
Num(digits) == <<"num", digits>>

IsNum(t) == Len(t) = 2 /\ t[1] = "num"

\* the response constructions extractAndProcessHandlerCode unwraps, in its order
ResponseWrappers ==
    << <<Tok("NextResponse"), Tok("."), Tok("json"), Tok("(")>>,
       <<Tok("Response"), Tok("."), Tok("json"), Tok("(")>>,
       <<Tok("new"), Tok("NextResponse"), Tok("(")>>,
       <<Tok("new"), Tok("Response"), Tok("(")>>,
       <<Tok("new"), Tok("NextApiResponse"), Tok("(")>> >>

-----------------------------------------------------------------------------
(* Route files.  A route.ts is its import declarations and its exported    *)
(* verb declarations; a declaration carries what the analysis reads off    *)
(* it: the form of the declaration, the annotated return type the regular  *)
(* expressions capture, and the results of the ts-morph passes.            *)

Verbs == {"GET", "POST", "PUT", "PATCH", "DELETE", "OPTIONS"}

ImportSpec(mod, def, ns, named, typeOnly) ==
    [moduleSpecifier |-> mod, defaultImport |-> def, namespaceImport |-> ns,
     namedImports |-> named, isTypeOnly |-> typeOnly]

Named(name, alias) == [name |-> name, alias |-> alias]

Decl(name, form, ann, input, output, paramName, bodyVar, code) ==
    [name |-> name, form |-> form, ann |-> ann, input |-> input, output |-> output,
     paramName |-> paramName, bodyVariableName |-> bodyVar, bodyParams |-> <<>>,
     handlerCode |-> code, calls |-> <<>>, props |-> <<>>]

\* A call expression of a handler body whose callee is an identifier bound in the
\* body to an arrow function: the number of parameters of the arrow function, the
\* type node of its first parameter (<<>> for none), and whether an argument of the
\* call is a variable holding the request body.
LocalCall(params, typeNode, bodyArg) == [params |-> params, typeNode |-> typeNode, bodyArg |-> bodyArg]

\* one property access on a payload variable, with the type its usages classify to
Prop(name, type) == [name |-> name, type |-> type]

foo == <<"foo">>
baz == <<"baz">>

tData == <<Tok("{ data: string }")>>

\* export function GET() { return NextResponse.json(foo()) }   with   import { foo } from 'A'
FileA ==
    [imports |-> << ImportSpec("A", NoIdent, NoIdent, <<Named(foo, NoIdent)>>, FALSE) >>,
     decls   |-> << Decl("GET", "function", <<>>, tUnknown, tData, NoIdent, NoIdent,
                         << <<Tok("return"), Tok("NextResponse"), Tok("."), Tok("json"), Tok("("), foo, Tok("("), Tok(")"), Tok(")"), Tok(";")>> >>) >>]

\* export const POST = async (req: Request): Promise<Response> => { const body = await req.json(); return foo(baz, body); }
\* with   import { foo, baz } from 'B'
FileB2 ==
    [imports |-> << ImportSpec("B", NoIdent, NoIdent, <<Named(foo, NoIdent), Named(baz, NoIdent)>>, FALSE) >>,
     decls   |-> << Decl("POST", "asyncArrow", <<Tok("Promise<Response>")>>, tUnknown, tData, <<"req">>, <<"body">>,
                         << <<Tok("const"), <<"body">>, Tok("="), Tok("await"), <<"req">>, Tok("."), Tok("json"), Tok("("), Tok(")"), Tok(";")>>,
                            <<Tok("return"), foo, Tok("("), baz, Tok(","), <<"body">>, Tok(")"), Tok(";")>> >>) >>]

\* export function GET() {...}  and  export const DELETE = withAuth(...)   with   import { foo } from 'B'
FileB ==
    [imports |-> << ImportSpec("B", NoIdent, NoIdent, <<Named(foo, NoIdent)>>, FALSE) >>,
     decls   |-> << Decl("GET", "function", <<>>, tUnknown, tData, NoIdent, NoIdent,
                         << <<Tok("return"), Tok("NextResponse"), Tok("."), Tok("json"), Tok("("), foo, Tok("("), Tok(")"), Tok(")"), Tok(";")>> >>),
                    Decl("DELETE", "wrapped", <<>>, tUnknown, tUnknown, NoIdent, NoIdent, <<>>) >>]

Contents == {FileA, FileB2, FileB}

db == <<"db">>
dc == <<"dc">>
pick == <<"pick">>
tItem == <<"Item">>

\* export function GET() { return NextResponse.json(db.all()) }   with   import db from 'M1'
FileD1 ==
    [imports |-> << ImportSpec("M1", db, NoIdent, <<>>, FALSE) >>,
     decls   |-> << Decl("GET", "function", <<>>, tUnknown, tData, NoIdent, NoIdent,
                         << <<Tok("return"), Tok("NextResponse"), Tok("."), Tok("json"), Tok("("), db, Tok("."), Tok("all"), Tok("("), Tok(")"), Tok(")"), Tok(";")>> >>) >>]

\* export function GET() { return NextResponse.json(pick(db)) }   with   import db, { pick } from 'M2'
FileD2 ==
    [imports |-> << ImportSpec("M2", db, NoIdent, <<Named(pick, NoIdent)>>, FALSE) >>,
     decls   |-> << Decl("GET", "function", <<>>, tUnknown, tData, NoIdent, NoIdent,
                         << <<Tok("return"), Tok("NextResponse"), Tok("."), Tok("json"), Tok("("), pick, Tok("("), db, Tok(")"), Tok(")"), Tok(";")>> >>) >>]

\* export async function POST(req: Request) { const add = (item: Item) => db.add(item); const body = await req.json();
\*                                            return NextResponse.json(add(body)) }
\* with   import db, { Item } from 'M3'
FileD3 ==
    [imports |-> << ImportSpec("M3", db, NoIdent, <<Named(tItem, NoIdent)>>, FALSE) >>,
     decls   |-> << [Decl("POST", "function", <<>>, tUnknown, tData, <<"req">>, <<"body">>,
                          << <<Tok("const"), <<"add">>, Tok("="), Tok("("), <<"item">>, Tok(":"), tItem, Tok(")"), Tok("=>"),
                               db, Tok("."), Tok("add"), Tok("("), <<"item">>, Tok(")"), Tok(";")>>,
                             <<Tok("const"), <<"body">>, Tok("="), Tok("await"), <<"req">>, Tok("."), Tok("json"), Tok("("), Tok(")"), Tok(";")>>,
                             <<Tok("return"), Tok("NextResponse"), Tok("."), Tok("json"), Tok("("), <<"add">>, Tok("("), <<"body">>, Tok(")"), Tok(")"), Tok(";")>> >>)
                      EXCEPT !.calls = << LocalCall(1, <<tItem>>, TRUE) >>] >>]

\* export function GET(): Promise<dc> { return load(); }   with   import type dc from 'M1'
FileT ==
    [imports |-> << ImportSpec("M1", dc, NoIdent, <<>>, TRUE) >>,
     decls   |-> << Decl("GET", "function", <<dc>>, tUnknown, <<dc>>, NoIdent, NoIdent,
                         << <<Tok("return"), Tok("load"), Tok("("), Tok(")"), Tok(";")>> >>) >>]

ns == <<"ns">>

\* export function GET() { return NextResponse.json(ns.all()) }   with   import * as ns from 'M2'
FileN ==
    [imports |-> << ImportSpec("M2", NoIdent, ns, <<>>, FALSE) >>,
     decls   |-> << Decl("GET", "function", <<>>, tUnknown, tData, NoIdent, NoIdent,
                         << <<Tok("return"), Tok("NextResponse"), Tok("."), Tok("json"), Tok("("), ns, Tok("."), Tok("all"), Tok("("), Tok(")"), Tok(")"), Tok(";")>> >>) >>]

ImportContents == {FileD1, FileD2, FileD3, FileT, FileN}

\* { id: 1 }
Payload == <<Tok("{"), <<"id">>, Tok(":"), Num("1"), Tok("}")>>

\* the second argument of a response construction: absent, without a status, or with one
InitArgument(status) ==
    IF status = "" THEN <<>>
    ELSE IF status = "none"
    THEN <<Tok(","), Tok("{"), <<"headers">>, Tok(":"), <<"cors">>, Tok("}")>>
    ELSE <<Tok(","), Tok("{"), Tok("status"), Tok(":"), Num(status), Tok("}")>>

StatusOfVerb ==
    [v \in {"GET", "POST", "PUT", "PATCH", "DELETE"} |->
        CASE v = "GET" -> "" [] v = "POST" -> "200" [] v = "PUT" -> "201"
          [] v = "PATCH" -> "404" [] OTHER -> "none"]

VerbOrder == <<"GET", "POST", "PUT", "PATCH", "DELETE">>

\* export async function GET()    { return W({ id: 1 }) }
\* export async function POST()   { return W({ id: 1 }, { status: 200 }) }
\* export async function PUT()    { return W({ id: 1 }, { status: 201 }) }
\* export async function PATCH()  { return W({ id: 1 }, { status: 404 }) }
\* export async function DELETE() { return W({ id: 1 }, { headers: cors }) }
\* for W the k-th of NextResponse.json, Response.json, new NextResponse, new Response
ResponseFile(k) ==
    [imports |-> <<>>,
     decls   |-> [i \in 1..Len(VerbOrder) |->
                    Decl(VerbOrder[i], "function", <<>>, tUnknown, tData, NoIdent, NoIdent,
                         << <<Tok("return")>> \o ResponseWrappers[k] \o Payload
                            \o InitArgument(StatusOfVerb[VerbOrder[i]]) \o <<Tok(")"), Tok(";")>> >>)]]

ResponseFiles == { ResponseFile(k) : k \in 1..4 }

RedirectTarget == "https://example.com"

\* export async function GET()  { return NextResponse.redirect('https://example.com'); }
\* export async function POST() { return NextResponse.redirect('https://example.com', { status: 307 }); }
FileR ==
    [imports |-> <<>>,
     decls   |-> << Decl("GET", "function", <<>>, tUnknown, <<Tok("NextResponse<unknown>")>>, NoIdent, NoIdent,
                         << <<Tok("return"), Tok("NextResponse"), Tok("."), Tok("redirect"), Tok("("),
                              StrTok(RedirectTarget), Tok(")"), Tok(";")>> >>),
                    Decl("POST", "function", <<>>, tUnknown, <<Tok("NextResponse<unknown>")>>, NoIdent, NoIdent,
                         << <<Tok("return"), Tok("NextResponse"), Tok("."), Tok("redirect"), Tok("("),
                              StrTok(RedirectTarget), Tok(","), Tok("{"), Tok("status"), Tok(":"), Num("307"),
                              Tok("}"), Tok(")"), Tok(";")>> >>) >>]

\* export async function POST(req: Request) { const now = () => Date.now(); return NextResponse.json({ at: now() }); }
FileH ==
    [imports |-> <<>>,
     decls   |-> << [Decl("POST", "function", <<>>, tUnknown, tData, <<"req">>, NoIdent,
                          << <<Tok("const"), <<"now">>, Tok("="), Tok("() => Date.now()"), Tok(";")>>,
                             <<Tok("return"), Tok("NextResponse"), Tok("."), Tok("json"), Tok("("), Tok("{"),
                               <<"at">>, Tok(":"), <<"now">>, Tok("("), Tok(")"), Tok("}"), Tok(")"), Tok(";")>> >>)
                     EXCEPT !.calls = << LocalCall(0, <<>>, FALSE) >>] >>]

\* export async function POST(req: Request) { const save = (item: Item) => item; const body = await req.json();
\*                                            return NextResponse.json(save(body)); }
FileS ==
    [imports |-> <<>>,
     decls   |-> << [Decl("POST", "function", <<>>, tUnknown, tData, <<"req">>, <<"body">>,
                          << <<Tok("const"), <<"save">>, Tok("="), Tok("(item: Item) => item"), Tok(";")>>,
                             <<Tok("const"), <<"body">>, Tok("="), Tok("await"), <<"req">>, Tok("."), Tok("json"), Tok("("), Tok(")"), Tok(";")>>,
                             <<Tok("return"), Tok("NextResponse"), Tok("."), Tok("json"), Tok("("),
                               <<"save">>, Tok("("), <<"body">>, Tok(")"), Tok(")"), Tok(";")>> >>)
                     EXCEPT !.calls = << LocalCall(1, <<tItem>>, TRUE) >>] >>]

\* the identifiers of the two top-level constants of infinite/route.ts
ALL_POSTS == <<"ALL_POSTS">>
PAGE_SIZE == <<"PAGE_SIZE">>

\* A top-level statement of a route file that is neither an import nor an export:
\* the names it declares, its text, and whether the text is const x = z.object...
Statement(names, schema, text) == [names |-> names, schema |-> schema, text |-> text]

\* const ALL_POSTS = Array.from({ length: 50 }, (_, i) => ({ id: i + 1 }));
\* const PAGE_SIZE = 10;
\* export async function GET(req: NextRequest) {
\*     'use infinite';
\*     const { searchParams } = req.nextUrl;
\*     const page = parseInt(searchParams.get('pagination') || '1', 10);
\*     const start = (page - 1) * PAGE_SIZE;
\*     const end = start + PAGE_SIZE;
\*     const items = ALL_POSTS.slice(start, end);
\*     const hasNextPage = end < ALL_POSTS.length;
\*     const nextPage = hasNextPage ? page + 1 : null;
\*     return NextResponse.json({ items, nextPage });
\* }
FileI ==
    [imports |-> <<>>,
     stmts   |-> << Statement({ALL_POSTS}, FALSE,
                              << <<Tok("const"), ALL_POSTS, Tok("="), Tok("Array.from({ length:"), Num("50"),
                                   Tok("}, (_, i) => ({ id: i + 1 }))"), Tok(";")>> >>),
                    Statement({PAGE_SIZE}, FALSE,
                              << <<Tok("const"), PAGE_SIZE, Tok("="), Num("10"), Tok(";")>> >>) >>,
     decls   |-> << Decl("GET", "function", <<>>, tUnknown, <<Tok("{ items: { id: number }[]; nextPage: number | null }")>>,
                         <<"req">>, NoIdent,
                         << <<StrTok("use infinite"), Tok(";")>>,
                            <<Tok("const"), Tok("{"), <<"searchParams">>, Tok("}"), Tok("="), <<"req">>, Tok("."), Tok("nextUrl"), Tok(";")>>,
                            <<Tok("const"), <<"page">>, Tok("="), Tok("parseInt"), Tok("("), <<"searchParams">>,
                              Tok(".get('pagination') || '1'"), Tok(","), Num("10"), Tok(")"), Tok(";")>>,
                            <<Tok("const"), <<"start">>, Tok("="), Tok("("), <<"page">>, Tok("-"), Num("1"), Tok(")"),
                              Tok("*"), PAGE_SIZE, Tok(";")>>,
                            <<Tok("const"), <<"end">>, Tok("="), <<"start">>, Tok("+"), PAGE_SIZE, Tok(";")>>,
                            <<Tok("const"), <<"items">>, Tok("="), ALL_POSTS, Tok("."), Tok("slice"), Tok("("),
                              <<"start">>, Tok(","), <<"end">>, Tok(")"), Tok(";")>>,
                            <<Tok("const"), <<"hasNextPage">>, Tok("="), <<"end">>, Tok("<"), ALL_POSTS, Tok("."), Tok("length"), Tok(";")>>,
                            <<Tok("const"), <<"nextPage">>, Tok("="), <<"hasNextPage">>, Tok("?"), <<"page">>, Tok("+"), Num("1"),
                              Tok(":"), Tok("null"), Tok(";")>>,
                            <<Tok("return"), Tok("NextResponse"), Tok("."), Tok("json"), Tok("("), Tok("{"),
                              <<"items">>, Tok(","), <<"nextPage">>, Tok("}"), Tok(")"), Tok(";")>> >>) >>]

\* export async function GET(req: NextRequest) { const h = req.headers.get('x') ?? req.headers.get('y');
\*                                                const c = req.cookies.get('s'); return NextResponse.json({ h, c }); }
FileHC ==
    [imports |-> <<>>,
     decls   |-> << Decl("GET", "function", <<>>, tUnknown, tData, <<"req">>, NoIdent,
                         << <<Tok("const"), <<"h">>, Tok("="), <<"req">>, Tok("."), Tok("headers"), Tok(".get('x')"),
                              Tok("??"), <<"req">>, Tok("."), Tok("headers"), Tok(".get('y')"), Tok(";")>>,
                            <<Tok("const"), <<"c">>, Tok("="), <<"req">>, Tok("."), Tok("cookies"), Tok(".get('s')"), Tok(";")>>,
                            <<Tok("return"), Tok("NextResponse"), Tok("."), Tok("json"), Tok("("), Tok("{"),
                              <<"h">>, Tok(","), <<"c">>, Tok("}"), Tok(")"), Tok(";")>> >>) >>]

\* export async function GET(request: NextRequest) { const p = request.nextUrl.pathname; return NextResponse.json({ p }); }
\* export async function POST(req: Request) { const { searchParams } = new URL(req.url);
\*                                            return NextResponse.json({ q: searchParams.get('q') }); }
FileSP ==
    [imports |-> <<>>,
     decls   |-> << Decl("GET", "function", <<>>, tUnknown, tData, <<"request">>, NoIdent,
                         << <<Tok("const"), <<"p">>, Tok("="), <<"request">>, Tok("."), Tok("nextUrl"), Tok(".pathname"), Tok(";")>>,
                            <<Tok("return"), Tok("NextResponse"), Tok("."), Tok("json"), Tok("("), Tok("{"),
                              <<"p">>, Tok("}"), Tok(")"), Tok(";")>> >>),
                    Decl("POST", "function", <<>>, tUnknown, tData, <<"req">>, NoIdent,
                         << <<Tok("const"), Tok("{"), <<"searchParams">>, Tok("}"), Tok("="), Tok("new URL("),
                              <<"req">>, Tok(".url"), Tok(")"), Tok(";")>>,
                            <<Tok("return"), Tok("NextResponse"), Tok("."), Tok("json"), Tok("("), Tok("{"),
                              <<"q">>, Tok(":"), <<"searchParams">>, Tok(".get('q')"), Tok("}"), Tok(")"), Tok(";")>> >>) >>]

\* the identifier $req
dollarReq == <<"$", "req">>

\* export async function GET($req: NextRequest) { const h = $req.headers.get('x'); return NextResponse.json({ h }); }
FileDollar ==
    [imports |-> <<>>,
     decls   |-> << Decl("GET", "function", <<>>, tUnknown, tData, dollarReq, NoIdent,
                         << <<Tok("const"), <<"h">>, Tok("="), dollarReq, Tok("."), Tok("headers"), Tok(".get('x')"), Tok(";")>>,
                            <<Tok("return"), Tok("NextResponse"), Tok("."), Tok("json"), Tok("("), Tok("{"),
                              <<"h">>, Tok("}"), Tok(")"), Tok(";")>> >>) >>]

makeStream == <<"makeStream">>
tStream == <<Tok("ReadableStream"), Tok("<Uint8Array>")>>

\* export async function GET() { const stream = makeStream(); return new Response(stream); }
\* export async function POST(req: Request) { const body = await req.json(); const stream = makeStream(body);
\*                                            return new Response(stream); }
\* export async function DELETE() { const stream = makeStream(); return new Response(stream); }
\* with   import { makeStream } from 'S'
FileStream ==
    [imports |-> << ImportSpec("S", NoIdent, NoIdent, <<Named(makeStream, NoIdent)>>, FALSE) >>,
     decls   |-> << Decl("GET", "function", <<>>, tUnknown, tStream, NoIdent, NoIdent,
                         << <<Tok("const"), <<"stream">>, Tok("="), makeStream, Tok("("), Tok(")"), Tok(";")>>,
                            <<Tok("return"), Tok("new"), Tok("Response"), Tok("("), <<"stream">>, Tok(")"), Tok(";")>> >>),
                    Decl("POST", "function", <<>>, tUnknown, tStream, <<"req">>, <<"body">>,
                         << <<Tok("const"), <<"body">>, Tok("="), Tok("await"), <<"req">>, Tok("."), Tok("json"), Tok("("), Tok(")"), Tok(";")>>,
                            <<Tok("const"), <<"stream">>, Tok("="), makeStream, Tok("("), <<"body">>, Tok(")"), Tok(";")>>,
                            <<Tok("return"), Tok("new"), Tok("Response"), Tok("("), <<"stream">>, Tok(")"), Tok(";")>> >>),
                    Decl("DELETE", "function", <<>>, tUnknown, tStream, NoIdent, NoIdent,
                         << <<Tok("const"), <<"stream">>, Tok("="), makeStream, Tok("("), Tok(")"), Tok(";")>>,
                            <<Tok("return"), Tok("new"), Tok("Response"), Tok("("), <<"stream">>, Tok(")"), Tok(";")>> >>) >>]

\* export async function POST(req: Request) { const res = await fetch('https://upstream');
\*                                            const data = await res.json(); return NextResponse.json(data); }
FileUp ==
    [imports |-> <<>>,
     decls   |-> << Decl("POST", "function", <<>>, tUnknown, <<Tok("any")>>, <<"req">>, NoIdent,
                         << <<Tok("const"), <<"res">>, Tok("="), Tok("await"), Tok("fetch('https://upstream')"), Tok(";")>>,
                            <<Tok("const"), <<"data">>, Tok("="), Tok("await"), <<"res">>, Tok("."), Tok("json"), Tok("("), Tok(")"), Tok(";")>>,
                            <<Tok("return"), Tok("NextResponse"), Tok("."), Tok("json"), Tok("("), <<"data">>, Tok(")"), Tok(";")>> >>) >>]

ContactSchema == <<"ContactSchema">>
tContact == <<Tok("{ name: string; email: string; message: string }")>>

\* export async function POST(req: Request) { const body = await req.json(); const msg = ContactSchema.parse(body);
\*                                            return NextResponse.json(send(msg)); }
\* with   import { ContactSchema, send } from 'C'   and ContactSchema a schema of { name, email, message }
FileZ ==
    [imports |-> << ImportSpec("C", NoIdent, NoIdent, <<Named(ContactSchema, NoIdent), Named(<<"send">>, NoIdent)>>, FALSE) >>,
     decls   |-> << Decl("POST", "function", <<>>, tContact, tData, <<"req">>, <<"body">>,
                         << <<Tok("const"), <<"body">>, Tok("="), Tok("await"), <<"req">>, Tok("."), Tok("json"), Tok("("), Tok(")"), Tok(";")>>,
                            <<Tok("const"), <<"msg">>, Tok("="), ContactSchema, Tok("."), Tok("parse"), Tok("("), <<"body">>, Tok(")"), Tok(";")>>,
                            <<Tok("return"), Tok("NextResponse"), Tok("."), Tok("json"), Tok("("), <<"send">>, Tok("("), <<"msg">>, Tok(")"), Tok(")"), Tok(";")>> >>) >>]

tNumber == <<Tok("number")>>

\* the handlers of one route.ts, each reading the payload into body:
\*   POST   validates body with ContactSchema.parse(body), passes it to the local
\*          store = (item: Item) => item, and computes body.price * body.qty - body.price
\*   PUT    passes body to the local store and computes body.price * body.qty - body.price
\*   PATCH  computes body.price * body.qty - body.price
\*   DELETE returns body
StagesDecl(verb, validated, calls, props) ==
    [Decl(verb, "function", <<>>, validated, tData, <<"req">>, <<"body">>,
          << <<Tok("const"), <<"body">>, Tok("="), Tok("await"), <<"req">>, Tok("."), Tok("json"), Tok("("), Tok(")"), Tok(";")>>,
             <<Tok("return"), Tok("NextResponse"), Tok("."), Tok("json"), Tok("("), <<"body">>, Tok(")"), Tok(";")>> >>)
     EXCEPT !.calls = calls, !.props = props]

PriceUsage == << Prop(<<"price">>, tNumber), Prop(<<"qty">>, tNumber), Prop(<<"price">>, tNumber) >>

FileStages ==
    [imports |-> <<>>,
     decls   |-> << StagesDecl("POST", tContact, << LocalCall(1, <<tItem>>, TRUE) >>, PriceUsage),
                    StagesDecl("PUT", tUnknown, << LocalCall(1, <<tItem>>, TRUE) >>, PriceUsage),
                    StagesDecl("PATCH", tUnknown, <<>>, PriceUsage),
                    StagesDecl("DELETE", tUnknown, <<>>, <<>>) >>]

EmitterContents == {FileA, FileB2, FileR, FileHC, FileSP, FileDollar, FileStream, FileUp, FileZ, FileStages}

AnalysisContents == ResponseFiles \cup {FileR, FileB, FileH, FileS, FileI}

-----------------------------------------------------------------------------
(* Handler discovery and analysis of one route file *)

MethodInfo(name, returnType) ==
    [name |-> name, returnType |-> returnType, inputType |-> tUnknown,
     paramName |-> NoIdent, handlerCode |-> <<>>, bodyVariableName |-> NoIdent,
     bodyParams |-> <<>>]

\* The matches of the k-th pattern of extractMethodsWithRegex, in text order:
\* m[1] is the verb, m[2] the captured return type (<<>> when the pattern has none).
RegexMatches(content, k) ==
    LET hit(d) == CASE k = 1 -> d.form = "function" /\ d.ann # <<>>
                    [] k = 2 -> d.form = "asyncArrow" /\ d.ann # <<>>
                    [] OTHER -> d.form \in {"function", "asyncArrow", "arrow", "wrapped"}
        ds == SelectSeq(content.decls, hit)
    IN  [i \in 1..Len(ds) |-> [name |-> ds[i].name, ret |-> IF k = 3 THEN <<>> ELSE ds[i].ann]]

IndexOfMethod(methods, name) ==
    IF \E i \in 1..Len(methods) : methods[i].name = name
    THEN CHOOSE i \in 1..Len(methods) : methods[i].name = name /\ \A j \in 1..(i - 1) : methods[j].name # name
    ELSE 0

RECURSIVE AddMatches(_, _)
AddMatches(map, ms) ==
    IF ms = <<>> THEN map
    ELSE LET m == Head(ms)
             ret == IF m.ret = <<>> THEN tUnknown ELSE m.ret
             i == IndexOfMethod(map, m.name)
         IN  AddMatches(
                 IF i = 0 THEN Append(map, MethodInfo(m.name, ret))
                 ELSE IF map[i].returnType = tUnknown THEN [map EXCEPT ![i].returnType = ret]
                 ELSE map,
                 Tail(ms))

extractMethodsWithRegex(content) ==
    AddMatches(AddMatches(AddMatches(<<>>, RegexMatches(content, 1)), RegexMatches(content, 2)),
               RegexMatches(content, 3))

extractImportsFromSourceFile(sourceFile) == sourceFile.imports

\* sourceFile.getVariableDeclaration(name)?.getInitializerIfKind(ArrowFunction) ?? sourceFile.getFunction(name)
\* as the index of the declaration in the source file, 0 for undefined
HandlerNode(sourceFile, name) ==
    LET ds == sourceFile.decls
        consts == { i \in 1..Len(ds) : ds[i].name = name /\ ds[i].form \in {"asyncArrow", "arrow", "wrapped"} }
        funcs  == { i \in 1..Len(ds) : ds[i].name = name /\ ds[i].form = "function" }
        first(S) == CHOOSE i \in S : \A j \in S : i <= j
    IN  IF consts # {} /\ ds[first(consts)].form \in {"asyncArrow", "arrow"} THEN first(consts)
        ELSE IF funcs # {} THEN first(funcs)
        ELSE 0

\* the variables declared with <reqParam>.json() or <reqParam>.body() as initializer
bodyVars(decl) == IF decl.bodyVariableName = NoIdent THEN {} ELSE {decl.bodyVariableName}

\* the last type argument of the schema of the first parse, parseAsync or safeParse
\* call on a payload variable whose schema type has type arguments; decl.input is
\* what the type checker resolves it to, unknown without such a call
validatorStage(decl) == IF decl.input # tUnknown /\ bodyVars(decl) # {} THEN decl.input ELSE <<>>

\* the helper-function stage of determineInputType returns at call k: the arrow
\* function's first parameter has a type node and an argument is a body variable
HelperReturns(calls, k) == calls[k].params > 0 /\ calls[k].typeNode # <<>> /\ calls[k].bodyArg

\* arrow.getParameters()[0] is undefined at call k and param.getTypeNode() throws
HelperThrows(calls, k) == calls[k].params = 0

\* determineInputType raises a TypeError before it returns
determineInputTypeThrows(sourceFile, h) ==
    /\ h # 0
    /\ sourceFile.decls[h].paramName # NoIdent
    /\ validatorStage(sourceFile.decls[h]) = <<>>
    /\ \E k \in 1..Len(sourceFile.decls[h].calls) :
          /\ HelperThrows(sourceFile.decls[h].calls, k)
          /\ \A j \in 1..(k - 1) : ~HelperReturns(sourceFile.decls[h].calls, j)

\* props as a Set: every property once, in the order of its first access
RECURSIVE Observed(_, _)
Observed(accesses, seen) ==
    IF accesses = <<>> THEN <<>>
    ELSE IF Head(accesses).name \in seen THEN Observed(Tail(accesses), seen)
    ELSE <<Head(accesses)>> \o Observed(Tail(accesses), seen \cup {Head(accesses).name})

\* fields.join('; ')
RECURSIVE JoinFields(_)
JoinFields(fields) ==
    IF fields = <<>> THEN <<>>
    ELSE IF Len(fields) = 1 THEN <<fields[1]>>
    ELSE <<fields[1], <<Tok(";")>> >> \o JoinFields(Tail(fields))

\* '{ ' + fields.join('; ') + ' }' with the field name + ': ' + propTypes[name]
RecordType(props) ==
    <<Tok("{")>>
    \o Concat(JoinFields([i \in 1..Len(props) |-> <<props[i].name, Tok(":")>> \o props[i].type]))
    \o <<Tok("}")>>

\* the stage that returns last among those that find a type
FirstSuccess_Last(stages) ==
    LET found == { k \in 1..Len(stages) : stages[k] # <<>> }
    IN  IF found = {} THEN tUnknown ELSE stages[CHOOSE k \in found : \A j \in found : j <= k]

\* the stages in the order of their return statements: the first that finds a type
\* returns it, and 'unknown' is returned after the last
FirstSuccess(stages) ==
    LET found == { k \in 1..Len(stages) : stages[k] # <<>> }
    IN  IF found = {} THEN tUnknown ELSE stages[CHOOSE k \in found : \A j \in found : k <= j]

determineInputType(sourceFile, h) ==
    IF h = 0 THEN tUnknown
    ELSE IF sourceFile.decls[h].paramName = NoIdent THEN tUnknown
    ELSE LET decl == sourceFile.decls[h]
             calls == decl.calls
             hits == { k \in 1..Len(calls) : HelperReturns(calls, k) }
             validator == validatorStage(decl)
             helper == IF hits # {} THEN calls[CHOOSE k \in hits : \A j \in hits : k <= j].typeNode ELSE <<>>
             structural == IF bodyVars(decl) # {} /\ decl.props # <<>>
                           THEN RecordType(Observed(decl.props, {})) ELSE <<>>
         IN  FirstSuccess(<<validator, helper, structural>>)

\* refineMethodTypes does not return: determineInputType throws for one of the methods
refineMethodTypesThrows(sourceFile, methods) ==
    \E i \in 1..Len(methods) : determineInputTypeThrows(sourceFile, HandlerNode(sourceFile, methods[i].name))

determineReturnType(sourceFile, info, h) ==
    IF h = 0 THEN (IF info.returnType = <<>> THEN tUnknown ELSE info.returnType)
    ELSE sourceFile.decls[h].output

refineMethodTypes(sourceFile, methods) ==
    [i \in 1..Len(methods) |->
        LET info == methods[i]
            h == HandlerNode(sourceFile, info.name)
            inferred == determineInputType(sourceFile, h)
        IN  [info EXCEPT !.inputType = IF inferred = tUnknown /\ info.name = "GET" THEN tVoid ELSE inferred,
                         !.returnType = determineReturnType(sourceFile, info, h)]]

\* A body text as one token sequence, its line breaks as tokens
NL == Tok("newline")

RECURSIVE FlattenText(_)
FlattenText(text) ==
    IF text = <<>> THEN <<>>
    ELSE IF Len(text) = 1 THEN text[1]
    ELSE text[1] \o <<NL>> \o FlattenText(Tail(text))

\* flat.split('\n'), with the empty text being no line at all
RECURSIVE SplitText(_, _)
SplitText(flat, line) ==
    LET breaks == { j \in 1..Len(flat) : flat[j] = NL }
    IN  IF breaks = {} THEN (IF line \o flat = <<>> THEN <<>> ELSE <<line \o flat>>)
        ELSE LET j == CHOOSE b \in breaks : \A c \in breaks : b <= c
             IN  <<line \o SubSeq(flat, 1, j - 1)>> \o SplitText(SubSeq(flat, j + 1, Len(flat)), <<>>)

\* the inner loop of removeWrapper: the position after the parenthesis closing depth
RECURSIVE ScanParens(_, _, _)
ScanParens(text, idx, depth) ==
    IF idx > Len(text) \/ depth <= 0 THEN idx
    ELSE ScanParens(text, idx + 1,
                    IF text[idx] = Tok("(") THEN depth + 1
                    ELSE IF text[idx] = Tok(")") THEN depth - 1 ELSE depth)

\* the first position at which text.startsWith(prefix, i), 0 for none
FirstMatch(text, prefix) ==
    LET hits == { j \in 1..(Len(text) - Len(prefix) + 1) : SubSeq(text, j, j + Len(prefix) - 1) = prefix }
    IN  IF hits = {} THEN 0 ELSE CHOOSE j \in hits : \A k \in hits : j <= k

RECURSIVE removeWrapper(_, _)
removeWrapper(text, prefix) ==
    IF FirstMatch(text, prefix) = 0 THEN text
    ELSE LET at == FirstMatch(text, prefix)
             start == at + Len(prefix)
             idx == ScanParens(text, start, 1)
         IN  SubSeq(text, 1, at - 1) \o SubSeq(text, start, idx - 2)
             \o removeWrapper(SubSeq(text, idx, Len(text)), prefix)

\* the inner loop of removeNewWrapper: the position after the closing parenthesis and
\* the position of the first top-level comma (-1 if none); a string literal is one token
RECURSIVE ScanArguments(_, _, _, _, _, _)
ScanArguments(text, idx, parenDepth, bracketDepth, curlyDepth, commaPos) ==
    IF idx > Len(text) \/ parenDepth <= 0 THEN [idx |-> idx, commaPos |-> commaPos]
    ELSE LET ch == text[idx]
         IN  ScanArguments(text, idx + 1,
                 IF ch = Tok("(") THEN parenDepth + 1 ELSE IF ch = Tok(")") THEN parenDepth - 1 ELSE parenDepth,
                 IF ch = Tok("[") THEN bracketDepth + 1 ELSE IF ch = Tok("]") THEN bracketDepth - 1 ELSE bracketDepth,
                 IF ch = Tok("{") THEN curlyDepth + 1 ELSE IF ch = Tok("}") THEN curlyDepth - 1 ELSE curlyDepth,
                 IF ch = Tok(",") /\ parenDepth = 1 /\ bracketDepth = 0 /\ curlyDepth = 0 /\ commaPos < 0
                 THEN idx ELSE commaPos)

\* /status\s*:\s*([0-9]+)/.exec(initArg): the digits of the first match, "" for no match
StatusCode(initArg) ==
    LET hits == { j \in 1..(Len(initArg) - 2) :
                    initArg[j] = Tok("status") /\ initArg[j + 1] = Tok(":") /\ IsNum(initArg[j + 2]) }
    IN  IF hits = {} THEN ""
        ELSE initArg[(CHOOSE j \in hits : \A k \in hits : j <= k) + 2][2]

ThrowOpen == Tok("( () => { const __body =")
ThrowClose == Tok("; throw new Error(JSON.stringify(__body)); } )()")

RECURSIVE removeNewWrapper(_, _)
removeNewWrapper(text, prefix) ==
    IF FirstMatch(text, prefix) = 0 THEN text
    ELSE LET at == FirstMatch(text, prefix)
             start == at + Len(prefix)
             sc == ScanArguments(text, start, 1, 0, 0, -1)
             endArgIdx == sc.idx - 1
             bodyArg == IF sc.commaPos > 0 THEN SubSeq(text, start, sc.commaPos - 1)
                        ELSE SubSeq(text, start, endArgIdx - 1)
             statusCode == IF sc.commaPos > 0
                           THEN StatusCode(SubSeq(text, sc.commaPos + 1, endArgIdx - 1)) ELSE ""
         IN  SubSeq(text, 1, at - 1)
             \o (IF statusCode # "" /\ statusCode # "200"
                 THEN <<ThrowOpen>> \o bodyArg \o <<ThrowClose>>
                 ELSE bodyArg)
             \o removeNewWrapper(SubSeq(text, sc.idx, Len(text)), prefix)

\* the loop of stripReturnComma: the position of the first comma at depth 0, or the
\* position after the text
RECURSIVE ScanReturn(_, _, _)
ScanReturn(text, idx, depth) ==
    IF idx > Len(text) THEN idx
    ELSE IF text[idx] \in {Tok("("), Tok("{"), Tok("[")} THEN ScanReturn(text, idx + 1, depth + 1)
    ELSE IF text[idx] \in {Tok(")"), Tok("}"), Tok("]")} THEN ScanReturn(text, idx + 1, depth - 1)
    ELSE IF text[idx] = Tok(",") /\ depth = 0 THEN idx
    ELSE ScanReturn(text, idx + 1, depth)

\* text.trim()
RECURSIVE Trim(_)
Trim(text) ==
    IF text # <<>> /\ Head(text) = NL THEN Trim(Tail(text))
    ELSE IF text # <<>> /\ text[Len(text)] = NL THEN Trim(SubSeq(text, 1, Len(text) - 1))
    ELSE text

stripReturnComma(text) ==
    IF ~IsPrefix(<<Tok("return")>>, Trim(text)) THEN text
    ELSE LET idx == ScanReturn(text, 1, 0)
             tail == SubSeq(text, idx, Len(text))
             semi == \E j \in 1..Len(tail) : tail[j] = Tok(";") /\ \A k \in 1..(j - 1) : tail[k] # NL
         IN  SubSeq(text, 1, idx - 1) \o (IF semi THEN <<Tok(";")>> ELSE <<>>)

RECURSIVE RemoveNewWrappers(_, _)
RemoveNewWrappers(text, prefixes) ==
    IF prefixes = <<>> THEN text
    ELSE RemoveNewWrappers(removeNewWrapper(text, Head(prefixes)), Tail(prefixes))

\* the body text of a handler as extractAndProcessHandlerCode rewrites it
RewriteBody(bodyText) ==
    SplitText(Trim(stripReturnComma(
                  RemoveNewWrappers(removeWrapper(FlattenText(bodyText),
                                                  <<Tok("JSON"), Tok("."), Tok("stringify"), Tok("(")>>),
                                    ResponseWrappers))),
              <<>>)

\* sourceFile.getStatements(), without the imports, the exports and the handlers
getStatements(sourceFile) == IF "stmts" \in DOMAIN sourceFile THEN sourceFile.stmts ELSE <<>>

\* Array.from(new Set(texts))
RECURSIVE Distinct(_, _)
Distinct(texts, seen) ==
    IF texts = <<>> THEN <<>>
    ELSE IF Head(texts) \in seen THEN Distinct(Tail(texts), seen)
    ELSE <<Head(texts)>> \o Distinct(Tail(texts), seen \cup {Head(texts)})

\* handlerCode without the top-level declarations
PrependUsedDecls_None(sourceFile, methods, handlerCode) == handlerCode

\* the top-level declarations the rewritten body names, schema declarations first,
\* joined in front of the body
PrependUsedDecls(sourceFile, methods, handlerCode) ==
    LET topLevel == getStatements(sourceFile)
        methodNames == { <<methods[k].name>> : k \in 1..Len(methods) }
        used(stmt) == /\ stmt.names \cap methodNames = {}
                      /\ \E n \in stmt.names : TextIncludesName(handlerCode, n)
        usedDecls == SelectSeq(topLevel, used)
        schemaDecls == SelectSeq(topLevel, LAMBDA stmt : stmt.schema)
        allDecls == Distinct([k \in 1..Len(schemaDecls) |-> schemaDecls[k].text]
                             \o [k \in 1..Len(usedDecls) |-> usedDecls[k].text], {})
    IN  IF usedDecls = <<>> THEN handlerCode
        ELSE Concat(allDecls) \o handlerCode

\* a token that reads as [A-Za-z_$][\w$]*
IsIdentifier(tok) ==
    /\ Len(tok) \in {1, 2}
    /\ tok[1] \notin {"const", "await", "return", "new", "=", ".", "(", ")", "{", "}", ";", ",", ":", "=>", "??", "num"}

\* /const\s+([A-Za-z_$][\w$]*)\s*=\s*(?:await\s+)?[A-Za-z_$][\w$]*\.json\(\)/ matches line at token j
JsonCaptureAt(line, j) ==
    /\ j + 3 <= Len(line)
    /\ line[j] = Tok("const") /\ IsIdentifier(line[j + 1]) /\ line[j + 2] = Tok("=")
    /\ \E k \in { IF line[j + 3] = Tok("await") THEN j + 4 ELSE j + 3 } :
          /\ k + 4 <= Len(line)
          /\ IsIdentifier(line[k])
          /\ SubSeq(line, k + 1, k + 4) = <<Tok("."), Tok("json"), Tok("("), Tok(")")>>

HasJsonCapture(line) == \E j \in 1..Len(line) : JsonCaptureAt(line, j)

\* dm[1] of the match
JsonCapture(line) ==
    line[(CHOOSE j \in 1..Len(line) : JsonCaptureAt(line, j) /\ \A i \in 1..(j - 1) : ~JsonCaptureAt(line, i)) + 1]

\* info.bodyVariableName: the capture of the first matching line of the rewritten
\* body; for a verb other than GET with input type unknown the loop over all
\* lines assigns again and the last matching line stays
CapturedBodyVariable(info, code) ==
    LET hits == { i \in 1..Len(code) : HasJsonCapture(code[i]) }
    IN  IF hits = {} THEN NoIdent
        ELSE IF info.inputType = tUnknown /\ info.name # "GET"
        THEN JsonCapture(code[CHOOSE i \in hits : \A k \in hits : k <= i])
        ELSE JsonCapture(code[CHOOSE i \in hits : \A k \in hits : i <= k])

extractAndProcessHandlerCode(sourceFile, methods) ==
    [i \in 1..Len(methods) |->
        LET info == methods[i]
            h == HandlerNode(sourceFile, info.name)
        IN  IF h = 0 THEN info
            ELSE [info EXCEPT !.paramName = IF sourceFile.decls[h].paramName = NoIdent THEN <<"req">>
                                            ELSE sourceFile.decls[h].paramName,
                              !.handlerCode = PrependUsedDecls(sourceFile, methods,
                                                               RewriteBody(sourceFile.decls[h].handlerCode)),
                              !.bodyVariableName = CapturedBodyVariable(info, RewriteBody(sourceFile.decls[h].handlerCode)),
                              !.bodyParams = IF info.inputType = tUnknown /\ info.name # "GET"
                                             THEN sourceFile.decls[h].bodyParams ELSE <<>>]]

-----------------------------------------------------------------------------
(* The route tree builder *)

RouteNode(segment) == [segment |-> segment, methods |-> <<>>, children |-> <<>>, imports |-> <<>>]

appSegment == Name("", "app", "")

\* path.basename(dir); the app directory itself is the empty path
basename(dir) == IF dir = <<>> THEN appSegment ELSE dir[Len(dir)]

HasChild(children, key) == \E i \in 1..Len(children) : children[i].key = key

ChildIndex(children, key) == CHOOSE i \in 1..Len(children) : children[i].key = key

GetChild(children, key) == children[ChildIndex(children, key)].node

\* node.children[key] = child: a present key keeps its place, a new key goes last
SetChild(children, key, child) ==
    IF HasChild(children, key)
    THEN [children EXCEPT ![ChildIndex(children, key)].node = child]
    ELSE Append(children, [key |-> key, node |-> child])

\* delete node.children[key]
DeleteChild(children, key) == SelectSeq(children, LAMBDA c : c.key # key)

RECURSIVE ObjectAssign(_, _)
ObjectAssign(target, source) ==
    IF source = <<>> THEN target
    ELSE ObjectAssign(SetChild(target, Head(source).key, Head(source).node), Tail(source))

\* The route.ts of dir exists on disk, declares handlers and is unknown to the project:
\* project.getSourceFileOrThrow throws.  Or refineMethodTypes throws on the source file.
RouteFileThrows(fsv, proj, dir) ==
    /\ dir \in DOMAIN fsv.files
    /\ Len(extractMethodsWithRegex(fsv.files[dir])) > 0
    /\ \/ dir \notin DOMAIN proj
       \/ refineMethodTypesThrows(proj[dir], extractMethodsWithRegex(fsv.files[dir]))

processRouteFile(fsv, proj, dir, node) ==
    IF dir \notin DOMAIN fsv.files THEN node
    ELSE LET methods == extractMethodsWithRegex(fsv.files[dir])
         IN  IF Len(methods) = 0 THEN [node EXCEPT !.methods = methods]
             ELSE LET sourceFile == proj[dir]
                  IN  [node EXCEPT !.methods = extractAndProcessHandlerCode(sourceFile,
                                                   refineMethodTypes(sourceFile, methods)),
                                   !.imports = extractImportsFromSourceFile(sourceFile)]

\* the directory entries processChildDirectories starts a task for
ChildEntries(fsv, dir) ==
    { d[Len(d)] : d \in { e \in fsv.dirs : Len(e) = Len(dir) + 1 /\ IsPrefix(dir, e) /\ ~startsWithDot(e[Len(e)]) } }

KeyOfSegment(seg) ==
    IF startsWithSpread(seg) /\ endsWithBracket(seg) THEN sliceSpread(seg)
    ELSE IF startsWithBracket(seg) /\ endsWithBracket(seg) THEN sliceBracket(seg)
    ELSE seg

\* the body of one sibling task, run when the child's parseRoutes has resolved
MergeChild(node, childSegment, childNode) ==
    IF toLowerCase(childSegment) = nApi
    THEN [node EXCEPT !.methods = node.methods \o childNode.methods,
                      !.children = ObjectAssign(node.children, childNode.children)]
    ELSE IF startsWithParen(childSegment) /\ endsWithParen(childSegment)
    THEN [node EXCEPT !.methods = node.methods \o childNode.methods,
                      !.children = ObjectAssign(node.children, childNode.children)]
    ELSE [node EXCEPT !.children = SetChild(node.children, KeyOfSegment(childSegment),
                                            [childNode EXCEPT !.segment = childSegment])]

RECURSIVE ParseThrows(_, _, _)
ParseThrows(fsv, proj, dir) ==
    \/ RouteFileThrows(fsv, proj, dir)
    \/ \E c \in ChildEntries(fsv, dir) : ParseThrows(fsv, proj, Append(dir, c))

\* The nodes parseRoutes(project, dir) can return, one per completion order of
\* the sibling tasks (at every level).
RECURSIVE ParseResults(_, _, _)
RECURSIVE processChildDirectories(_, _, _, _, _)
processChildDirectories(fsv, proj, dir, node, pending) ==
    IF pending = {} THEN {node}
    ELSE UNION { UNION { processChildDirectories(fsv, proj, dir, MergeChild(node, c, r), pending \ {c})
                         : r \in ParseResults(fsv, proj, Append(dir, c)) }
                 : c \in pending }

ParseResults(fsv, proj, dir) ==
    processChildDirectories(fsv, proj, dir, processRouteFile(fsv, proj, dir, RouteNode(basename(dir))),
                            ChildEntries(fsv, dir))

-----------------------------------------------------------------------------
(* Text helpers shared by the emitters *)

NameTok(n) == <<"name", n.pre, n.core, n.suf>>

ParamTok(n) == <<n.core>>

Indent == Tok("  ")

\* the delimiter of a template literal
BackTick == Tok("backtick")

PrefixFirst(toks, text) == [text EXCEPT ![1] = toks \o @]

SuffixLast(text, toks) == [text EXCEPT ![Len(text)] = @ \o toks]

\* text.split('\n').slice(1, -1)
InnerLines(text) == SubSeq(text, 2, Len(text) - 1)

IndentAll(text) == [i \in 1..Len(text) |-> <<Indent>> \o text[i]]

RECURSIVE JoinToks(_, _)
JoinToks(parts, sep) ==
    IF parts = <<>> THEN <<>>
    ELSE IF Len(parts) = 1 THEN <<parts[1]>>
    ELSE <<parts[1], sep>> \o JoinToks(Tail(parts), sep)

\* line.replace(new RegExp(pattern, 'g'), replacement) for a pattern of whole tokens
RECURSIVE ReplaceAll(_, _, _)
ReplaceAll(line, pattern, replacement) ==
    IF Len(line) < Len(pattern) \/ pattern = <<>> THEN line
    ELSE IF SubSeq(line, 1, Len(pattern)) = pattern
    THEN replacement \o ReplaceAll(SubSeq(line, Len(pattern) + 1, Len(line)), pattern, replacement)
    ELSE <<Head(line)>> \o ReplaceAll(Tail(line), pattern, replacement)

usesBody(methodInfo) ==
    /\ methodInfo.name # "GET"
    /\ \/ methodInfo.inputType # tUnknown
       \/ methodInfo.bodyVariableName # NoIdent
       \/ Len(methodInfo.bodyParams) > 0

QueryString == Tok("+ (searchParams ? '?' + new URLSearchParams(searchParams) : '')")

SearchParamsProp == Tok("searchParams?: Record<string, string>")

RedirectCall == <<Tok("NextResponse"), Tok("."), Tok("redirect")>>

IsStrTok(t) == Len(t) = 3 /\ t[1] = "'" /\ t[3] = "'"

\* /NextResponse\.redirect\(\s*(['"])(.*?)\1\)/ : the literal must be followed by ')'
ClientRedirectUrl(code) ==
    LET hits == { <<i, j>> \in (1..Len(code)) \X (1..8) :
                    /\ j + 5 <= Len(code[i])
                    /\ SubSeq(code[i], j, j + 2) = RedirectCall
                    /\ code[i][j + 3] = Tok("(")
                    /\ IsStrTok(code[i][j + 4])
                    /\ code[i][j + 5] = Tok(")") }
    IN  IF hits = {} THEN ""
        ELSE LET h == CHOOSE h \in hits : \A g \in hits : h[1] < g[1] \/ (h[1] = g[1] /\ h[2] <= g[2])
             IN  code[h[1]][h[2] + 4][2]

\* /NextResponse\.redirect\(\s*(['"])(.*?)\1/
ServerRedirectUrl(code) ==
    LET hits == { <<i, j>> \in (1..Len(code)) \X (1..8) :
                    /\ j + 4 <= Len(code[i])
                    /\ SubSeq(code[i], j, j + 2) = RedirectCall
                    /\ code[i][j + 3] = Tok("(")
                    /\ IsStrTok(code[i][j + 4]) }
    IN  IF hits = {} THEN ""
        ELSE LET h == CHOOSE h \in hits : \A g \in hits : h[1] < g[1] \/ (h[1] = g[1] /\ h[2] <= g[2])
             IN  code[h[1]][h[2] + 4][2]

-----------------------------------------------------------------------------
(* The client emitter *)

\* buildPathLiteral with a catch-all segment contributing ${x} like a single parameter
buildPathLiteral_SingleCatchAll(segments) ==
    LET contribution(seg) ==
            IF startsWithParen(seg) /\ endsWithParen(seg) THEN <<>>
            ELSE IF startsWithBracket(seg) /\ endsWithBracket(seg)
            THEN << <<"${">> \o ParamTok(sliceBracket(seg)) \o <<"}">> >>
            ELSE << NameTok(seg) >>
        parts == Concat([i \in 1..Len(segments) |-> contribution(segments[i])])
    IN  <<BackTick, Tok("/")>> \o JoinToks(parts, Tok("/")) \o <<BackTick>>

buildPathLiteral(segments) ==
    LET contribution(seg) ==
            IF startsWithParen(seg) /\ endsWithParen(seg) THEN <<>>
            ELSE IF startsWithSpread(seg) /\ endsWithBracket(seg)
            THEN << <<"${">> \o ParamTok(sliceSpread(seg)) \o <<".join(\"/\")}">> >>
            ELSE IF startsWithBracket(seg) /\ endsWithBracket(seg)
            THEN << <<"${">> \o ParamTok(sliceBracket(seg)) \o <<"}">> >>
            ELSE << NameTok(seg) >>
        parts == Concat([i \in 1..Len(segments) |-> contribution(segments[i])])
    IN  <<BackTick, Tok("/")>> \o JoinToks(parts, Tok("/")) \o <<BackTick>>

\* dataType.startsWith('ReadableStream') that never holds
IsStreaming_Never(dataType) == FALSE

\* dataType.startsWith('ReadableStream')
IsStreaming(dataType) == Len(dataType) > 0 /\ dataType[1] = Tok("ReadableStream")

buildMethodCode(methodInfo, pathLit) ==
    LET methodName == methodInfo.name
        dataType == methodInfo.returnType
        isGet == methodName = "GET"
        inputType == methodInfo.inputType
        body == usesBody(methodInfo)
        optionsType == <<Tok("{")>> \o (IF body THEN <<Tok("body:")>> \o inputType \o <<Tok(";")>> ELSE <<>>)
                       \o <<SearchParamsProp, Tok("}")>>
        paramsSignature ==
            IF body THEN <<Tok("({ body, searchParams }:")>> \o optionsType \o <<Tok(")")>>
            ELSE <<Tok("({ searchParams }:")>> \o optionsType \o <<Tok("= {})")>>
        head == <<Tok(methodName), Tok(":")>> \o paramsSignature
        fetchCall(ini) == <<Tok("fetch(")>> \o pathLit \o <<QueryString>> \o ini \o <<Tok(")")>>
        verbInit == <<Tok(", { method:"), StrTok(methodName), Tok("}")>>
        bodyInit == <<Tok(", { method:"), StrTok(methodName),
                      Tok(", headers: {'Content-Type':'application/json'}, body: JSON.stringify(body) }")>>
        init == IF isGet THEN <<>> ELSE IF ~body THEN verbInit ELSE bodyInit
        stream == << head \o <<Tok("=>"), Tok("tryCatchFunction(async () => {")>>,
                     <<Tok("const res = await")>> \o fetchCall(init) \o <<Tok(";")>>,
                     <<Tok("const reader = res.body!.getReader();")>>,
                     <<Tok("const decoder = new TextDecoder();")>>,
                     <<Tok("return { reader, decoder };")>>,
                     <<Tok("})"), Tok(",")>> >>
    IN  IF methodInfo.handlerCode # <<>> /\ TextIncludes(methodInfo.handlerCode, RedirectCall)
        THEN << head \o <<Tok(": void => {")>>,
                <<Tok("const url ="), StrTok(ClientRedirectUrl(methodInfo.handlerCode)), QueryString, Tok(";")>>,
                <<Tok("window.location.assign(url);")>>,
                <<Tok("}"), Tok(",")>> >>
        ELSE IF IsStreaming(dataType) THEN stream
        ELSE IF isGet
        THEN << head \o <<Tok(": UseQueryResult<")>> \o dataType \o <<Tok(", unknown> =>"), Tok("useQuery<")>>
                \o dataType \o <<Tok(", unknown>(["), StrTok(methodName), Tok(",")>> \o pathLit
                \o <<Tok(", searchParams], () =>")>> \o fetchCall(init) \o <<Tok(".then(res => res.json())),")>> >>
        ELSE << head \o <<Tok(": UseMutationResult<")>> \o dataType \o <<Tok(", unknown,")>>
                \o (IF body THEN inputType ELSE tVoid) \o <<Tok("> =>"), Tok("useMutation<")>> \o dataType
                \o <<Tok(", unknown,")>> \o (IF body THEN inputType ELSE tVoid) \o <<Tok(">(() =>")>>
                \o fetchCall(init) \o <<Tok(".then(res => res.json())),")>> >>

RECURSIVE buildObjectCode(_, _)

buildDynamicChildCode(key, child, segments) ==
    LET spread == startsWithSpread(child.segment) /\ endsWithBracket(child.segment)
        param == IF spread THEN sliceSpread(child.segment) ELSE sliceBracket(child.segment)
        type == IF spread THEN Tok("string[]") ELSE Tok("string")
        childCode == buildObjectCode(child, Append(segments, child.segment))
    IN  << <<NameTok(toUpperCase(key)), Tok(":"), Tok("("), ParamTok(param), Tok(":"), type, Tok(")"), Tok("=> ({")>> >>
        \o InnerLines(childCode)
        \o << <<Tok("})"), Tok(",")>> >>

\* buildStaticChildCode without the upper-casing of the key
buildStaticChildCode_RawKey(key, child, segments) ==
    SuffixLast(PrefixFirst(<<NameTok(key), Tok(":")>>,
                           buildObjectCode(child, Append(segments, child.segment))),
               <<Tok(",")>>)

buildStaticChildCode(key, child, segments) ==
    SuffixLast(PrefixFirst(<<NameTok(toUpperCase(key)), Tok(":")>>,
                           buildObjectCode(child, Append(segments, child.segment))),
               <<Tok(",")>>)

buildObjectCode(node, segments) ==
    LET pathLit == buildPathLiteral(segments)
        methodLines == Concat([i \in 1..Len(node.methods) |-> buildMethodCode(node.methods[i], pathLit)])
        childLines == Concat([i \in 1..Len(node.children) |->
                        LET key == node.children[i].key
                            child == node.children[i].node
                        IN  IF startsWithBracket(child.segment) /\ endsWithBracket(child.segment)
                            THEN buildDynamicChildCode(key, child, segments)
                            ELSE buildStaticChildCode(key, child, segments)])
    IN  << <<Tok("{")>> >> \o methodLines \o childLines \o << <<Tok("}")>> >>

-----------------------------------------------------------------------------
(* The server emitter *)

\* handlerCode.split('\n'): the empty text is one empty line
SplitLines(code) == IF code = <<>> THEN << <<>> >> ELSE code

createFunctionString(params, body) ==
    << <<Tok("(")>> \o params \o <<Tok(")"), Tok("=>"), Tok("tryCatchFunction(async () => {")>> >>
    \o body
    \o << <<Tok("})")>> >>

LineIncludesName(line, name) == \E j \in 1..Len(line) : TokIncludes(line[j], name)

StartsWithToks(line, toks) == IsPrefix(toks, line)

UseInfinite == <<StrTok("use infinite")>>
UseMutation == <<StrTok("use mutation")>>
JsonCall == <<Tok("."), Tok("json"), Tok("(")>>

FirstIndex(lines, Test(_)) ==
    IF \E i \in 1..Len(lines) : Test(lines[i])
    THEN CHOOSE i \in 1..Len(lines) : Test(lines[i]) /\ \A j \in 1..(i - 1) : ~Test(lines[j])
    ELSE 0

\* the source of new RegExp(id + '\\.' + member, 'g') holds the characters of id as
\* they are: '$' is the end-of-input assertion, and with further characters to
\* match after it the expression matches nowhere
HasMetaCharacter(id) == \E k \in 1..Len(id) : id[k] = "$"

\* line.replace(new RegExp(id + '\\.' + member, 'g'), replacement)
ReplaceRegExp(line, id, member, replacement) ==
    IF HasMetaCharacter(id) THEN line
    ELSE ReplaceAll(line, <<id, Tok("."), Tok(member)>>, replacement)

buildMethodHandlerCode(methodInfo) ==
    LET methodName == methodInfo.name
        isGet == methodName = "GET"
        body == usesBody(methodInfo)
        inputType == methodInfo.inputType
        member(fn) == SuffixLast(PrefixFirst(<<Indent, Tok(methodName), Tok(":")>>, fn), <<Tok(",")>>)
        handlerRawLines == SplitLines(methodInfo.handlerCode)
        isInfinite(line) == LineIncludes(line, UseInfinite)
        isMutation(line) == LineIncludes(line, UseMutation)
        \* the use infinite branch
        keepInfinite(line) ==
            /\ ~LineIncludes(line, UseInfinite)
            /\ ~LineIncludes(line, << <<"req">>, Tok("."), Tok("nextUrl") >>)
            /\ ~LineIncludes(line, << Tok("await"), <<"req">>, Tok("."), Tok("json"), Tok("("), Tok(")") >>)
            /\ ~(StartsWithToks(line, << Tok("const"), Tok("{"), <<"searchParams">> >>)
                 /\ \E j \in 4..Len(line) : line[j] = Tok("}"))
            /\ ~StartsWithToks(line, << Tok("const"), <<"page">>, Tok("=") >>)
        infiniteParams ==
            IF body
            THEN <<Tok("{ body, searchParams }: { body:")>> \o inputType
                 \o <<Tok("; searchParams?: Record<string, string> }, pageParam: number = 1")>>
            ELSE <<Tok("{ searchParams }: { searchParams?: Record<string, string> }, pageParam: number = 1")>>
        infiniteBody == << <<Indent, Tok("const page = pageParam;")>> >>
                        \o IndentAll(SelectSeq(handlerRawLines, keepInfinite))
        \* the general case
        mutationIndex == FirstIndex(handlerRawLines, isMutation)
        spliced == IF mutationIndex = 0 THEN handlerRawLines
                   ELSE SubSeq(handlerRawLines, 1, mutationIndex - 1)
                        \o SubSeq(handlerRawLines, mutationIndex + 1, Len(handlerRawLines))
        codeLines == IF isGet THEN spliced
                     ELSE SelectSeq(spliced, LAMBDA line : ~LineIncludes(line, JsonCall))
        paramName == IF methodInfo.paramName = NoIdent THEN <<"req">> ELSE methodInfo.paramName
        usesSearchParams ==
            \E i \in 1..Len(codeLines) :
                \/ LineIncludesName(codeLines[i], <<"searchParams">>)
                \/ LineIncludes(codeLines[i], <<paramName, Tok("."), Tok("nextUrl")>>)
        headerAccess == <<paramName, Tok("."), Tok("headers")>>
        cookieAccess == <<paramName, Tok("."), Tok("cookies")>>
        hasHeaderUsage == \E i \in 1..Len(codeLines) : LineIncludes(codeLines[i], headerAccess)
        hasCookieUsage == \E i \in 1..Len(codeLines) : LineIncludes(codeLines[i], cookieAccess)
        optionProps == (IF body THEN << <<Tok("body:")>> \o inputType >> ELSE <<>>)
                       \o (IF usesSearchParams THEN << <<SearchParamsProp>> >> ELSE <<>>)
        optionsType == <<Tok("{")>> \o Concat(JoinToks(optionProps, <<Tok(";")>>)) \o <<Tok("}")>>
        aliasVar == methodInfo.bodyVariableName
        propNames == (IF body
                      THEN (IF aliasVar # NoIdent /\ aliasVar # <<"body">>
                            THEN << <<Tok("body:"), aliasVar>> >> ELSE << <<Tok("body")>> >>)
                      ELSE <<>>)
                     \o (IF usesSearchParams THEN << <<Tok("searchParams")>> >> ELSE <<>>)
        paramsString == IF Len(optionProps) > 0
                        THEN <<Tok("{")>> \o Concat(JoinToks(propNames, <<Tok(",")>>)) \o <<Tok("}:")>> \o optionsType
                        ELSE <<>>
        replaced(line) ==
            LET l1 == IF hasHeaderUsage THEN ReplaceRegExp(line, paramName, "headers", <<Tok("headersVal")>>) ELSE line
            IN  IF hasCookieUsage THEN ReplaceRegExp(l1, paramName, "cookies", <<Tok("cookiesVal")>>) ELSE l1
        bodyLines ==
            (IF usesSearchParams
             THEN << <<Tok("const"), paramName,
                       Tok(": any = { url: 'http://localhost' + (searchParams ? '?' + new URLSearchParams(searchParams) : ''), nextUrl: { searchParams: new URLSearchParams(searchParams) } };")>> >>
             ELSE <<>>)
            \o (IF hasHeaderUsage THEN << <<Tok("const headersVal = await nextHeaders();")>> >> ELSE <<>>)
            \o (IF hasCookieUsage THEN << <<Tok("const cookiesVal = await nextCookies();")>> >> ELSE <<>>)
            \o [i \in 1..Len(codeLines) |-> replaced(codeLines[i])]
    IN  IF methodInfo.handlerCode # <<>> /\ TextIncludes(methodInfo.handlerCode, RedirectCall)
        THEN member(createFunctionString(
                 <<Tok("{ searchParams }: { searchParams?: Record<string, string> } = {}")>>,
                 << <<Tok("const url = 'http://localhost'"), QueryString, Tok(";")>>,
                    <<Tok("redirect("), StrTok(ServerRedirectUrl(methodInfo.handlerCode)), Tok(");")>> >>))
        ELSE IF FirstIndex(handlerRawLines, isInfinite) > 0
        THEN member(createFunctionString(infiniteParams, infiniteBody))
        ELSE member(createFunctionString(paramsString, IndentAll(bodyLines)))

RECURSIVE buildServerObjectCode(_, _)

buildChildRouteCode(key, child, segments) ==
    LET spread == startsWithSpread(child.segment) /\ endsWithBracket(child.segment)
        dynamic == startsWithBracket(child.segment) /\ endsWithBracket(child.segment)
        param == ParamTok(IF spread THEN sliceSpread(child.segment) ELSE sliceBracket(child.segment))
        type == IF spread THEN Tok("string[]") ELSE Tok("string")
        rawChildCode == buildServerObjectCode(child, Append(segments, child.segment))
        replace(line) ==
            ReplaceAll(ReplaceAll(line, <<Tok("("), Tok("await"), <<"params">>, Tok(")"), Tok("."), param>>, <<param>>),
                       << <<"params">>, Tok("."), param >>, <<param>>)
        replacedChildCode == [i \in 1..Len(rawChildCode) |-> replace(rawChildCode[i])]
        innerLines == SelectSeq(InnerLines(replacedChildCode),
                                LAMBDA line : ~LineIncludes(line, <<Tok("const"), param, Tok("="), param>>))
    IN  IF spread \/ dynamic
        THEN << <<NameTok(toUpperCase(key)), Tok(":"), Tok("("), param, Tok(":"), type, Tok(")"), Tok("=> ({")>> >>
             \o innerLines
             \o << <<Tok("})"), Tok(",")>> >>
        ELSE SuffixLast(PrefixFirst(<<Indent, NameTok(toUpperCase(key)), Tok(":")>>, rawChildCode), <<Tok(",")>>)

buildServerObjectCode(node, segments) ==
    << <<Tok("{")>> >>
    \o Concat([i \in 1..Len(node.methods) |-> buildMethodHandlerCode(node.methods[i])])
    \o Concat([i \in 1..Len(node.children) |->
                  buildChildRouteCode(node.children[i].key, node.children[i].node, segments)])
    \o << <<Tok("}")>> >>

-----------------------------------------------------------------------------
(* The import aggregator.  combineImports copies each ImportSpec but shares *)
(* the named-import objects with the tree, so a named import carries the    *)
(* place of its object in the tree (ref): <<child positions, import index,  *)
(* named index>>, or <<>> for an object created by combineImports.          *)

NoRef == <<>>

RECURSIVE collectRouteImports(_, _)
collectRouteImports(node, at) ==
    [i \in 1..Len(node.imports) |->
        [node.imports[i] EXCEPT !.namedImports =
            [j \in 1..Len(node.imports[i].namedImports) |->
                [name |-> node.imports[i].namedImports[j].name,
                 alias |-> node.imports[i].namedImports[j].alias,
                 ref |-> <<at, i, j>>]]]]
    \o Concat([c \in 1..Len(node.children) |-> collectRouteImports(node.children[c].node, Append(at, c))])

IndexOfModule(map, key) ==
    IF \E i \in 1..Len(map) : map[i].moduleSpecifier = key
    THEN CHOOSE i \in 1..Len(map) : map[i].moduleSpecifier = key
    ELSE 0

RECURSIVE PushMissing(_, _)
PushMissing(existing, named) ==
    IF named = <<>> THEN existing
    ELSE LET ni == Head(named)
         IN  PushMissing(
                 IF \E k \in 1..Len(existing) : existing[k].name = ni.name /\ existing[k].alias = ni.alias
                 THEN existing ELSE Append(existing, ni),
                 Tail(named))

MergeImport(existing, imp) ==
    LET withDefault ==
            IF imp.defaultImport # NoIdent /\ existing.defaultImport = NoIdent
            THEN [existing EXCEPT !.defaultImport = imp.defaultImport]
            ELSE IF imp.defaultImport # NoIdent /\ existing.defaultImport # imp.defaultImport
            THEN [existing EXCEPT !.namedImports =
                     Append(@, [name |-> imp.defaultImport, alias |-> imp.defaultImport \o <<"">>, ref |-> NoRef])]
            ELSE existing
        withNamespace ==
            IF imp.namespaceImport # NoIdent /\ withDefault.namespaceImport = NoIdent
            THEN [withDefault EXCEPT !.namespaceImport = imp.namespaceImport]
            ELSE withDefault
        withNamed == [withNamespace EXCEPT !.namedImports = PushMissing(@, imp.namedImports)]
    IN  IF ~imp.isTypeOnly THEN [withNamed EXCEPT !.isTypeOnly = FALSE] ELSE withNamed

RECURSIVE CombineInto(_, _)
CombineInto(map, imports) ==
    IF imports = <<>> THEN map
    ELSE LET imp == Head(imports)
             i == IndexOfModule(map, imp.moduleSpecifier)
         IN  CombineInto(IF i = 0 THEN Append(map, imp) ELSE [map EXCEPT ![i] = MergeImport(map[i], imp)],
                         Tail(imports))

combineImports(imports) == CombineInto(<<>>, imports)

formatImport(imp) ==
    LET typeOnly == IF imp.isTypeOnly THEN <<Tok("type")>> ELSE <<>>
        named == [k \in 1..Len(imp.namedImports) |->
                    IF imp.namedImports[k].alias # NoIdent
                    THEN <<imp.namedImports[k].name, Tok("as"), imp.namedImports[k].alias>>
                    ELSE <<imp.namedImports[k].name>>]
        parts == (IF imp.defaultImport # NoIdent THEN << <<imp.defaultImport>> >> ELSE <<>>)
                 \o (IF Len(imp.namedImports) > 0
                     THEN << <<Tok("{")>> \o Concat(JoinToks(named, <<Tok(",")>>)) \o <<Tok("}")>> >>
                     ELSE <<>>)
    IN  IF imp.namespaceImport # NoIdent
        THEN <<Tok("import")>> \o typeOnly \o <<Tok("*"), Tok("as"), imp.namespaceImport, Tok("from"),
               StrTok(imp.moduleSpecifier), Tok(";")>>
        ELSE <<Tok("import")>> \o typeOnly \o Concat(JoinToks(parts, <<Tok(",")>>))
             \o <<Tok("from"), StrTok(imp.moduleSpecifier), Tok(";")>>

ImportName(ni) == IF ni.alias # NoIdent THEN ni.alias ELSE ni.name

\* nameCount.get(id) || 0 for the map countImportIdentifiers builds
countImportIdentifiers(imports, id) ==
    LET perImport(imp) ==
            (IF imp.defaultImport # NoIdent /\ imp.defaultImport = id THEN 1 ELSE 0)
            + (IF imp.namespaceImport # NoIdent /\ imp.namespaceImport = id THEN 1 ELSE 0)
            + Cardinality({ k \in 1..Len(imp.namedImports) : ImportName(imp.namedImports[k]) = id })
        sum[i \in 0..Len(imports)] == IF i = 0 THEN 0 ELSE sum[i - 1] + perImport(imports[i])
    IN  sum[Len(imports)]

MapGet(m, k) == IF k \in DOMAIN m THEN m[k] ELSE 0

MapSet(m, k, v) == [x \in DOMAIN m \cup {k} |-> IF x = k THEN v ELSE m[x]]

\* the loop over imp.namedImports; the result is <<named imports, used>>
RECURSIVE AliasNamed(_, _, _, _)
AliasNamed(named, k, used, all) ==
    IF k > Len(named) THEN <<named, used>>
    ELSE LET ni == named[k]
             importName == ImportName(ni)
             cnt == countImportIdentifiers(all, importName)
             occ == MapGet(used, importName)
         IN  IF cnt > 1
             THEN AliasNamed(IF occ > 0 THEN [named EXCEPT ![k].alias = Suffixed(ni.name, occ)] ELSE named,
                             k + 1, MapSet(used, importName, occ + 1), all)
             ELSE AliasNamed(named, k + 1, used, all)

\* the loop over imports; all is the list the counts were taken from
RECURSIVE AliasFrom(_, _, _, _)
AliasFrom(imports, i, used, all) ==
    IF i > Len(imports) THEN imports
    ELSE LET imp == imports[i]
             dOcc == MapGet(used, imp.defaultImport)
             dHit == imp.defaultImport # NoIdent /\ countImportIdentifiers(all, imp.defaultImport) > 1
             dName == IF dHit /\ dOcc > 0 THEN Suffixed(imp.defaultImport, dOcc) ELSE imp.defaultImport
             used1 == IF dHit THEN MapSet(used, dName, dOcc + 1) ELSE used
             nOcc == MapGet(used1, imp.namespaceImport)
             nHit == imp.namespaceImport # NoIdent /\ countImportIdentifiers(all, imp.namespaceImport) > 1
             nName == IF nHit /\ nOcc > 0 THEN Suffixed(imp.namespaceImport, nOcc) ELSE imp.namespaceImport
             used2 == IF nHit THEN MapSet(used1, nName, nOcc + 1) ELSE used1
             res == AliasNamed(imp.namedImports, 1, used2, all)
         IN  AliasFrom([imports EXCEPT ![i] = [imp EXCEPT !.defaultImport = dName,
                                                          !.namespaceImport = nName,
                                                          !.namedImports = res[1]]],
                       i + 1, res[2], all)

applyImportAliases(imports) == AliasFrom(imports, 1, <<>>, imports)

aliasConflictingImports(imports) == applyImportAliases(imports)

\* the positions of the imports filterUnusedImports keeps
filterUnusedImports(imports, code) ==
    { i \in 1..Len(imports) :
        \/ imports[i].defaultImport # NoIdent /\ TextIncludesName(code, imports[i].defaultImport)
        \/ imports[i].namespaceImport # NoIdent /\ TextIncludes(code, <<imports[i].namespaceImport, Tok(".")>>)
        \/ \E k \in 1..Len(imports[i].namedImports) :
              TextIncludesName(code, ImportName(imports[i].namedImports[k])) }

-----------------------------------------------------------------------------
(* Artifact generation *)

\* prettier.format: the external pretty-printer, as far as the model sees it,
\* normalises the indentation
formatCode(code) ==
    [i \in 1..Len(code) |-> SelectSeq(code[i], LAMBDA t : t # Indent)]

UsesTryCatch(code) ==
    \E i \in 1..Len(code) : \E j \in 1..Len(code[i]) : code[i][j] = Tok("tryCatchFunction(async () => {")

\* the one value of a singleton set: Only({ e : x \in {v} }) is e with x bound to v
Only(S) == CHOOSE x \in S : TRUE

\* filterUnusedImports([...combinedImports], [code]): the kept specs are the objects
\* of combinedImports, named here by their positions
KeptPositions(imports, code) ==
    SelectSeq([i \in 1..Len(imports) |-> i], LAMBDA i : i \in filterUnusedImports(imports, code))

\* aliasConflictingImports on the kept specs: combinedImports as the call leaves it
AliasKept(imports, kept) ==
    Only({ [i \in 1..Len(imports) |->
               IF \E k \in 1..Len(kept) : kept[k] = i
               THEN aliased[CHOOSE k \in 1..Len(kept) : kept[k] = i]
               ELSE imports[i]]
           : aliased \in { aliasConflictingImports([k \in 1..Len(kept) |-> imports[kept[k]]]) } })

ImportLines(imports, kept) == [k \in 1..Len(kept) |-> formatImport(imports[kept[k]])]

ClientSdkContents(clientBody, clientImportLines) ==
    << <<Tok("'use client';")>>, <<>>, <<Tok("/* Auto-generated API SDK - do not edit */")>> >>
    \o clientImportLines
    \o (IF UsesTryCatch(clientBody)
        THEN << <<Tok("import { tryCatchFunction } from \"../utils/tryCatch.ts\";")>> >> ELSE <<>>)
    \o << <<>>,
          <<Tok("import { useQuery, useMutation, useInfiniteQuery } from 'react-query';")>>,
          <<Tok("import type { UseQueryResult, UseMutationResult, UseInfiniteQueryResult } from 'react-query';")>>,
          <<>> >>
    \o SuffixLast(PrefixFirst(<<Tok("export const API =")>>, clientBody), <<Tok(";")>>)
    \o << <<>> >>

ServerSdkContents(serverBody, serverImportLines) ==
    << <<Tok("/* Auto-generated API SERVER SDK - do not edit */")>>, <<>> >>
    \o serverImportLines
    \o << <<Tok("import { tryCatchFunction } from \"../utils/tryCatch.ts\";")>>,
          <<Tok("import { headers as nextHeaders } from \"next/headers\";")>>,
          <<Tok("import { cookies as nextCookies } from \"next/headers\";")>>,
          <<Tok("import { redirect } from \"next/navigation\";")>> >>
    \o << <<>> >>
    \o SuffixLast(PrefixFirst(<<Tok("export const API =")>>, serverBody), <<Tok(";")>>)
    \o << <<>> >>

\* generateClientSdk up to its await: combinedImports as it is left, and the text
generateClientSdk(tree, combinedImports) ==
    Only({ Only({ Only({ [imports |-> after,
                          contents |-> ClientSdkContents(clientBody, ImportLines(after, kept))]
                         : after \in { AliasKept(combinedImports, kept) } })
                  : kept \in { KeptPositions(combinedImports, clientBody) } })
           : clientBody \in { buildObjectCode(tree, <<>>) } })

\* generateServerSdk up to its await
generateServerSdk(tree, combinedImports) ==
    Only({ Only({ Only({ [imports |-> after,
                          contents |-> ServerSdkContents(serverBody, ImportLines(after, kept))]
                         : after \in { AliasKept(combinedImports, kept) } })
                  : kept \in { KeptPositions(combinedImports, serverBody) } })
           : serverBody \in { buildServerObjectCode(tree, <<>>) } })

\* The aliases the shared named-import objects hold once the emitters are done with
\* the specs, written back to the places of the objects in the tree.
RECURSIVE WriteBack(_, _, _)
WriteBack(node, at, imports) ==
    LET held(r) == \E i \in 1..Len(imports) : \E k \in 1..Len(imports[i].namedImports) :
                       imports[i].namedImports[k].ref = r
        aliasAt(r) == LET i == CHOOSE i \in 1..Len(imports) :
                                   \E k \in 1..Len(imports[i].namedImports) : imports[i].namedImports[k].ref = r
                          k == CHOOSE k \in 1..Len(imports[i].namedImports) : imports[i].namedImports[k].ref = r
                      IN  imports[i].namedImports[k].alias
    IN  [node EXCEPT
            !.imports = [i \in 1..Len(node.imports) |->
                [node.imports[i] EXCEPT !.namedImports =
                    [j \in 1..Len(node.imports[i].namedImports) |->
                        IF held(<<at, i, j>>)
                        THEN [node.imports[i].namedImports[j] EXCEPT !.alias = aliasAt(<<at, i, j>>)]
                        ELSE node.imports[i].namedImports[j]]]],
            !.children = [c \in 1..Len(node.children) |->
                [node.children[c] EXCEPT !.node = WriteBack(node.children[c].node, Append(at, c), imports)]]]

\* collectRouteImports, combineImports and aliasConflictingImports as writeSdks and
\* generateSdk both start
AggregateImports(tree) == aliasConflictingImports(combineImports(collectRouteImports(tree, <<>>)))

\* writeSdks up to the two awaited prettier.format calls: the tree as the call leaves
\* it and the two texts; the client task's synchronous part runs first
writeSdks(tree) ==
    Only({ Only({ Only({ [tree |-> WriteBack(tree, <<>>, server.imports),
                          client |-> client.contents,
                          server |-> server.contents]
                         : server \in { generateServerSdk(tree, client.imports) } })
                  : client \in { generateClientSdk(tree, combinedImports) } })
           : combinedImports \in { AggregateImports(tree) } })

\* writeSdks with the synchronous part of the server task run before that of the
\* client task
writeSdksServerFirst(tree) ==
    Only({ Only({ Only({ [tree |-> WriteBack(tree, <<>>, client.imports),
                          client |-> client.contents,
                          server |-> server.contents]
                         : client \in { generateClientSdk(tree, server.imports) } })
                  : server \in { generateServerSdk(tree, combinedImports) } })
           : combinedImports \in { AggregateImports(tree) } })

-----------------------------------------------------------------------------
(* The app directory *)

ImportPaths == { <<>>, <<nUsers>>, <<nUsers, nId>>, <<nSlug>> }

AnalysisPaths == { <<>>, <<nUsers>>, <<nUsers, nId>> }

BuildPaths ==
    { <<>>, <<nUsers>>, <<nGroup>>, <<nGroup, nGroupH, nUsers>>,
      <<nApi>>, <<nApiUp, nUsers>>, <<nUsers, nId>>, <<nSlug>> }

WatchPaths == { <<nUsers>>, <<nUsers, nId>>, <<nUsers, nGroup>>, <<nApi>>, <<nGroup>> }

WatchContents == { FileA, FileB }

\* the directories that exist once the route.ts files of F do
Ancestors(F) == UNION { { SubSeq(d, 1, k) : k \in 1..Len(d) } : d \in F }

FileSystems(paths, contents, n) ==
    UNION { { [dirs |-> Ancestors(F), files |-> f]
              : f \in [F -> contents] }
            : F \in { S \in SUBSET paths : Cardinality(S) <= n } }

\* project.addSourceFilesAtPaths(path.join(appDir, '**', 'route.ts'))
AddAllRouteFiles(fsv) == fsv.files

\* project.addSourceFilesAtPaths(filePath): a file that is on disk and not yet a
\* source file of the project is read; a known source file is kept as it is
AddSourceFile(fsv, proj, dir) ==
    IF dir \in DOMAIN fsv.files /\ dir \notin DOMAIN proj
    THEN [d \in DOMAIN proj \cup {dir} |-> IF d = dir THEN fsv.files[dir] ELSE proj[d]]
    ELSE proj

\* const sf = project.getSourceFile(filePath); if (sf) project.removeSourceFile(sf)
RemoveSourceFile(proj, dir) == [d \in DOMAIN proj \ {dir} |-> proj[d]]

NoTree == RouteNode(Name("", "null", ""))

NoText == <<>>

-----------------------------------------------------------------------------
(* handleFileEvent: locating the affected subtree *)

\* relPath.split(path.sep).filter(...)
EventSegments(dir) == SelectSeq(dir, LAMBDA seg : ~(startsWithParen(seg) /\ endsWithParen(seg)))

\* the key computed for a segment of the notification's path
EventKey(seg) ==
    IF startsWithSpread(seg) /\ endsWithBracket(seg) THEN sliceSpread(seg)
    ELSE IF startsWithBracket(seg) /\ endsWithBracket(seg) THEN sliceBracket(seg)
    ELSE seg

EventKeys(dir) == [i \in 1..Len(EventSegments(dir)) |-> EventKey(EventSegments(dir)[i])]

\* the descent without the test of parentNode
HasNodeAt_Unchecked(node, keys) == TRUE

\* the descent parentNode = parentNode.children[key] finds a node at every step
RECURSIVE HasNodeAt(_, _)
HasNodeAt(node, keys) ==
    IF keys = <<>> THEN TRUE
    ELSE /\ HasChild(node.children, Head(keys))
         /\ HasNodeAt(GetChild(node.children, Head(keys)), Tail(keys))

RECURSIVE NodeAt(_, _)
NodeAt(node, keys) ==
    IF keys = <<>> THEN node ELSE NodeAt(GetChild(node.children, Head(keys)), Tail(keys))

\* parentNode.children[key] = newNode, for the parentNode found along keys
RECURSIVE AssignChildAt(_, _, _, _)
AssignChildAt(node, keys, key, newNode) ==
    IF keys = <<>> THEN [node EXCEPT !.children = SetChild(node.children, key, newNode)]
    ELSE [node EXCEPT !.children =
            SetChild(node.children, Head(keys),
                     AssignChildAt(GetChild(node.children, Head(keys)), Tail(keys), key, newNode))]

\* delete parentNode.children[key]
RECURSIVE DeleteChildAt(_, _, _)
DeleteChildAt(node, keys, key) ==
    IF keys = <<>> THEN [node EXCEPT !.children = DeleteChild(node.children, key)]
    ELSE [node EXCEPT !.children =
            SetChild(node.children, Head(keys),
                     DeleteChildAt(GetChild(node.children, Head(keys)), Tail(keys), key))]

\* One invocation of handleFileEvent between two awaits.  parentPath and key say
\* where parentNode was found; attached says that parentNode is still part of the
\* live tree (it is not once another invocation has replaced currentTree or a
\* node above parentNode).
Run(event, dir, pc, attached, pending, client, server) ==
    [event |-> event, dir |-> dir, pc |-> pc, attached |-> attached,
     pending |-> pending, client |-> client, server |-> server]

RunKeys(r) == EventKeys(r.dir)

ParentPath(r) == SubSeq(RunKeys(r), 1, Len(RunKeys(r)) - 1)

LastKey(r) == RunKeys(r)[Len(RunKeys(r))]

IsRootRun(r) == EventSegments(r.dir) = <<>>

\* the other invocations whose parentNode leaves the live tree when the child
\* under key of the node at keys is replaced or deleted
Detach(rs, keys, key) ==
    [i \in 1..Len(rs) |->
        IF rs[i].pc = "parsing" /\ ~IsRootRun(rs[i]) /\ IsPrefix(Append(keys, key), ParentPath(rs[i]))
        THEN [rs[i] EXCEPT !.attached = FALSE] ELSE rs[i]]

DetachAll(rs) ==
    [i \in 1..Len(rs) |->
        IF rs[i].pc = "parsing" /\ ~IsRootRun(rs[i]) THEN [rs[i] EXCEPT !.attached = FALSE] ELSE rs[i]]

RemoveAt(seq, i) == SubSeq(seq, 1, i - 1) \o SubSeq(seq, i + 1, Len(seq))

-----------------------------------------------------------------------------
(* The state machine *)

Texts(w) == [client |-> w.client, server |-> w.server]

Formatted(w) == [client |-> formatCode(w.client), server |-> formatCode(w.server)]

InitOn(fileSystems) ==
    /\ fs \in fileSystems
    /\ project = [d \in {} |-> FileA]
    /\ currentTree = NoTree
    /\ phase = "start"
    /\ queue = <<>>
    /\ runs = <<>>
    /\ disk = [client |-> NoText, server |-> NoText]
    /\ lastRaw = [client |-> NoText, server |-> NoText]
    /\ gens = 0
    /\ nOps = 0
    /\ crashed = FALSE

InitBuild == InitOn(FileSystems(BuildPaths, Contents, MaxFiles))

Init == InitOn(FileSystems(WatchPaths, WatchContents, MaxWatchFiles))

InitImports == InitOn(FileSystems(ImportPaths, ImportContents, MaxFiles))

InitHandlers == InitOn(FileSystems(AnalysisPaths, AnalysisContents, MaxFiles))

InitEmitters == InitOn(FileSystems(AnalysisPaths, EmitterContents, MaxFiles))

\* one-shot mode: generateSdk, to the end of both file writes
\* or, when parseRoutes rejects, to process.exit(1) in the catch
GenerateSdk ==
    /\ phase = "start"
    /\ project' = AddAllRouteFiles(fs)
    /\ IF ParseThrows(fs, AddAllRouteFiles(fs), <<>>)
       THEN /\ phase' = "failed"
            /\ UNCHANGED <<currentTree, lastRaw, disk, gens>>
       ELSE /\ \E t \in ParseResults(fs, AddAllRouteFiles(fs), <<>>) :
                  \E tree \in { WriteBack(t, <<>>, AggregateImports(t)) } :
                  \E w \in { writeSdks(tree) } :
                      /\ currentTree' = w.tree
                      /\ lastRaw' = Texts(w)
                      /\ disk' = Formatted(w)
            /\ gens' = gens + 1
            /\ phase' = "done"
    /\ UNCHANGED <<fs, queue, runs, nOps, crashed>>

\* watch mode: the initial build, to the end of both file writes
\* or, when parseRoutes rejects, to the rejection of the module's top-level await
WatchStartup ==
    /\ phase = "start"
    /\ project' = AddAllRouteFiles(fs)
    /\ IF ParseThrows(fs, AddAllRouteFiles(fs), <<>>)
       THEN /\ phase' = "failed"
            /\ UNCHANGED <<currentTree, lastRaw, disk, gens>>
       ELSE /\ \E t \in ParseResults(fs, AddAllRouteFiles(fs), <<>>) :
                  \E w \in { writeSdks(t) } :
                      /\ currentTree' = w.tree
                      /\ lastRaw' = Texts(w)
                      /\ disk' = Formatted(w)
            /\ gens' = gens + 1
            /\ phase' = "watching"
    /\ UNCHANGED <<fs, queue, runs, nOps, crashed>>

\* writeSdks once more on the tree as it stands, to the end of both file writes
Regenerate ==
    /\ phase \in {"done", "watching"}
    /\ gens < MaxGens
    /\ \E w \in { writeSdks(currentTree) } :
           /\ currentTree' = w.tree
           /\ lastRaw' = Texts(w)
           /\ disk' = Formatted(w)
    /\ gens' = gens + 1
    /\ UNCHANGED <<fs, project, phase, queue, runs, nOps, crashed>>

\* the user creates or rewrites the route.ts of directory d; chokidar will notify
UserWrite(d, c) ==
    /\ phase = "watching" /\ ~crashed
    /\ nOps < MaxOps
    /\ d \in DOMAIN fs.files => fs.files[d] # c
    /\ fs' = [dirs |-> fs.dirs \cup Ancestors({d}),
              files |-> [e \in DOMAIN fs.files \cup {d} |-> IF e = d THEN c ELSE fs.files[e]]]
    /\ queue' = Append(queue, [event |-> IF d \in DOMAIN fs.files THEN "change" ELSE "add", dir |-> d])
    /\ nOps' = nOps + 1
    /\ UNCHANGED <<project, currentTree, phase, runs, disk, lastRaw, gens, crashed>>

\* the user removes the route.ts of directory d (the directory stays)
UserUnlink(d) ==
    /\ phase = "watching" /\ ~crashed
    /\ nOps < MaxOps
    /\ d \in DOMAIN fs.files
    /\ fs' = [fs EXCEPT !.files = [e \in DOMAIN fs.files \ {d} |-> fs.files[e]]]
    /\ queue' = Append(queue, [event |-> "unlink", dir |-> d])
    /\ nOps' = nOps + 1
    /\ UNCHANGED <<project, currentTree, phase, runs, disk, lastRaw, gens, crashed>>

\* The watcher emits the oldest notification and handleFileEvent runs to its first
\* await: the project update, the descent, and for an unlink below the root the
\* delete and writeSdks up to its awaits.
StartRun ==
    /\ phase = "watching" /\ ~crashed
    /\ queue # <<>>
    /\ LET e == Head(queue)
           proj == IF e.event = "unlink" THEN RemoveSourceFile(project, e.dir)
                   ELSE AddSourceFile(fs, project, e.dir)
           keys == EventKeys(e.dir)
           parent == SubSeq(keys, 1, Len(keys) - 1)
       IN  /\ project' = proj
           /\ queue' = Tail(queue)
           /\ IF keys = <<>>
              THEN /\ runs' = Append(runs, Run(e.event, e.dir, "parsing", TRUE, {}, NoText, NoText))
                   /\ UNCHANGED <<currentTree, lastRaw, gens>>
              ELSE IF ~HasNodeAt(currentTree, parent)
              THEN UNCHANGED <<runs, currentTree, lastRaw, gens>>
              ELSE IF e.event = "unlink"
              THEN \E tree \in { DeleteChildAt(currentTree, parent, keys[Len(keys)]) } :
                   \E w \in { writeSdks(tree) } :
                       /\ currentTree' = w.tree
                       /\ lastRaw' = Texts(w)
                       /\ gens' = gens + 1
                       /\ runs' = Append(Detach(runs, parent, keys[Len(keys)]),
                                         Run(e.event, e.dir, "writing", TRUE, {"client", "server"},
                                             formatCode(w.client), formatCode(w.server)))
              ELSE /\ runs' = Append(runs, Run(e.event, e.dir, "parsing", TRUE, {}, NoText, NoText))
                   /\ UNCHANGED <<currentTree, lastRaw, gens>>
    /\ UNCHANGED <<fs, phase, disk, nOps, crashed>>

\* the same, when the watcher holds a notification back until no invocation is active
StartRunSerially ==
    /\ runs = <<>>
    /\ StartRun

\* parseRoutes of invocation i resolves or rejects; on resolve the subtree is
\* assigned and writeSdks runs up to its awaits
ParseDone(i) ==
    /\ ~crashed
    /\ runs[i].pc = "parsing"
    /\ IF ParseThrows(fs, project, runs[i].dir)
       THEN /\ crashed' = TRUE
            /\ runs' = RemoveAt(runs, i)
            /\ UNCHANGED <<currentTree, lastRaw, gens>>
       ELSE \E newNode \in ParseResults(fs, project, runs[i].dir) :
               LET r == runs[i]
                   others == IF IsRootRun(r) THEN DetachAll(runs)
                             ELSE IF r.attached THEN Detach(runs, ParentPath(r), LastKey(r))
                             ELSE runs
               IN  \E tree \in { IF IsRootRun(r) THEN newNode
                                 ELSE IF r.attached
                                 THEN AssignChildAt(currentTree, ParentPath(r), LastKey(r), newNode)
                                 ELSE currentTree } :
                   \E w \in { writeSdks(tree) } :
                   /\ currentTree' = w.tree
                   /\ lastRaw' = Texts(w)
                   /\ gens' = gens + 1
                   /\ runs' = [others EXCEPT ![i] = Run(r.event, r.dir, "writing", TRUE, {"client", "server"},
                                                        formatCode(w.client), formatCode(w.server))]
                   /\ crashed' = crashed
    /\ UNCHANGED <<fs, project, phase, queue, disk, nOps>>

\* prettier.format of one artifact of invocation i resolves and the file is written;
\* the invocation returns after the second
WriteFile(i, which) ==
    /\ ~crashed
    /\ runs[i].pc = "writing"
    /\ which \in runs[i].pending
    /\ disk' = [disk EXCEPT ![which] = runs[i][which]]
    /\ runs' = IF runs[i].pending = {which} THEN RemoveAt(runs, i)
               ELSE [runs EXCEPT ![i].pending = @ \ {which}]
    /\ UNCHANGED <<fs, project, currentTree, phase, queue, lastRaw, gens, nOps, crashed>>

\* fs.mkdirSync or fs.writeFileSync of writeSdkFile throws for one artifact of
\* invocation i: the rejection passes through generateClientSdk or generateServerSdk,
\* Promise.all, writeSdks and handleFileEvent to the callback of watcher.on('all'),
\* which has no handler for it
WriteFails(i, which) ==
    /\ ~crashed
    /\ runs[i].pc = "writing"
    /\ which \in runs[i].pending
    /\ crashed' = TRUE
    /\ runs' = RemoveAt(runs, i)
    /\ UNCHANGED <<fs, project, currentTree, phase, queue, disk, lastRaw, gens, nOps>>

NextBuild ==
    \/ GenerateSdk
    \/ WatchStartup
    \/ Regenerate

Next ==
    \/ WatchStartup
    \/ \E d \in WatchPaths : \E c \in WatchContents : UserWrite(d, c)
    \/ \E d \in WatchPaths : UserUnlink(d)
    \/ StartRun
    \/ \E i \in 1..Len(runs) : ParseDone(i)
    \/ \E i \in 1..Len(runs) : \E which \in {"client", "server"} : WriteFile(i, which)
    \/ \E i \in 1..Len(runs) : \E which \in {"client", "server"} : WriteFails(i, which)

NextSerial ==
    \/ WatchStartup
    \/ \E d \in WatchPaths : \E c \in WatchContents : UserWrite(d, c)
    \/ \E d \in WatchPaths : UserUnlink(d)
    \/ StartRunSerially
    \/ \E i \in 1..Len(runs) : ParseDone(i)
    \/ \E i \in 1..Len(runs) : \E which \in {"client", "server"} : WriteFile(i, which)
    \/ \E i \in 1..Len(runs) : \E which \in {"client", "server"} : WriteFails(i, which)

Spec == Init /\ [][Next]_vars

SpecSerial == Init /\ [][NextSerial]_vars

SpecBuild == InitBuild /\ [][NextBuild]_vars

SpecImports == InitImports /\ [][NextBuild]_vars

SpecHandlers == InitHandlers /\ [][NextBuild]_vars

SpecEmitters == InitEmitters /\ [][NextBuild]_vars

-----------------------------------------------------------------------------
(* Properties of the route tree *)

\* the [key, node] entries of every children map at or below node
RECURSIVE Entries(_)
Entries(node) ==
    UNION { {node.children[i]} \cup Entries(node.children[i].node) : i \in 1..Len(node.children) }

AllNodes(tree) == {tree} \cup { e.node : e \in Entries(tree) }

VerbList(node) == [i \in 1..Len(node.methods) |-> node.methods[i].name]

\* a node as C1 compares it: segment, verb list, and the children as a mapping
RECURSIVE Shape(_)
Shape(node) ==
    [segment |-> node.segment,
     verbs |-> VerbList(node),
     children |-> { <<node.children[i].key, Shape(node.children[i].node)>> : i \in 1..Len(node.children) }]

\* a node as C5 compares it: the methods in order, and the children as a mapping
RECURSIVE Canon(_)
Canon(node) ==
    [segment |-> node.segment,
     methods |-> node.methods,
     children |-> { <<node.children[i].key, Canon(node.children[i].node)>> : i \in 1..Len(node.children) }]

IsGroupName(n) == n.pre = "(" /\ n.suf = ")"

IsApiName(n) == n.pre = "" /\ n.suf = "" /\ n.core \in {"api", "Api", "API", "aPi", "apI", "APi", "aPI", "ApI"}

StripDecoration(n) == IF n.pre \in {"[", "[..."} /\ n.suf = "]" THEN Name("", n.core, "") ELSE n

Quiescent == phase = "watching" /\ queue = <<>> /\ runs = <<>> /\ ~crashed

\* C1: in watch mode with notifications handled one after another, once every
\* notification has been handled the live tree equals a tree parseRoutes builds from
\* scratch over the current directory contents (same keys recursively, same segment
\* and same verb list at every node).
C1_LiveTreeMatchesFreshParse ==
    Quiescent =>
        \E t \in ParseResults(fs, AddAllRouteFiles(fs), <<>>) : Shape(currentTree) = Shape(t)

\* C2: no two notifications are processed concurrently: at most one invocation of
\* handleFileEvent is between its start and the end of its writeSdks.
C2_OneRunAtATime == Len(runs) <= 1

\* C3: no node below the root has a segment that is a route group or api in any
\* letter case.
C3_NoCollectorNodes ==
    \A e \in Entries(currentTree) : ~IsGroupName(e.node.segment) /\ ~IsApiName(e.node.segment)

\* C4: every node is stored under the key obtained from its own segment by stripping
\* the bracket decoration.
C4_KeyedByOwnSegment ==
    \A e \in Entries(currentTree) : e.key = StripDecoration(e.node.segment)

\* C5: for fixed directory contents every completion order of the sibling tasks
\* gives the same tree (methods in order, children as a mapping).
C5_ParseOrderIndependent ==
    phase = "start" =>
        \A t1, t2 \in ParseResults(fs, AddAllRouteFiles(fs), <<>>) : Canon(t1) = Canon(t2)

\* C6: after parseRoutes every node has at most one Handler Descriptor per verb.
C6_VerbUnique ==
    phase # "start" =>
        \A n \in AllNodes(currentTree) :
            \A i, j \in 1..Len(n.methods) : n.methods[i].name = n.methods[j].name => i = j

-----------------------------------------------------------------------------
(* Reading the accessor structure back from an artifact text *)

StripIndent(line) == SelectSeq(line, LAMBDA t : t # Indent)

IsVerbTok(t) == Len(t) = 1 /\ t[1] \in Verbs

IsKeyTok(t) == Len(t) = 4 /\ t[1] = "name"

IsCloser(l) ==
    l \in { <<Tok("}")>>, <<Tok("}"), Tok(",")>>, <<Tok("})"), Tok(",")>>, <<Tok("}"), Tok(";")>> }

IsMemberHead(l) == Len(l) >= 2 /\ IsVerbTok(l[1]) /\ l[2] = Tok(":")

OpensBlock(l) == l[Len(l)] \in { Tok(": void => {"), Tok("tryCatchFunction(async () => {") }

IsChildHead(l) == Len(l) >= 3 /\ IsKeyTok(l[1]) /\ l[2] = Tok(":")

IsFunctionHead(l) == Len(l) = 8 /\ l[3] = Tok("(") /\ l[5] = Tok(":") /\ l[7] = Tok(")") /\ l[8] = Tok("=> ({")

NextCloser(lines, i) ==
    IF \E j \in i..Len(lines) : IsCloser(StripIndent(lines[j]))
    THEN CHOOSE j \in i..Len(lines) :
            IsCloser(StripIndent(lines[j])) /\ \A k \in i..(j - 1) : ~IsCloser(StripIndent(lines[k]))
    ELSE Len(lines)

NoMembers == [verbs |-> <<>>, children |-> <<>>]

\* the members of the object literal whose first member starts at line i
RECURSIVE ReadMembers(_, _, _)
ReadMembers(lines, i, acc) ==
    IF i > Len(lines) THEN [node |-> acc, next |-> i]
    ELSE LET l == StripIndent(lines[i])
         IN  IF IsCloser(l) THEN [node |-> acc, next |-> i + 1]
             ELSE IF IsMemberHead(l)
             THEN LET last == IF OpensBlock(l) THEN NextCloser(lines, i + 1) ELSE i
                  IN  ReadMembers(lines, last + 1,
                          [acc EXCEPT !.verbs = Append(@, [name |-> l[1][1], first |-> i, last |-> last])])
             ELSE IF IsChildHead(l)
             THEN LET sub == ReadMembers(lines, i + 1, NoMembers)
                  IN  ReadMembers(lines, sub.next,
                          [acc EXCEPT !.children = Append(@,
                              [key |-> l[1],
                               kind |-> IF IsFunctionHead(l) THEN "function"
                                        ELSE IF l = <<l[1], Tok(":"), Tok("{")>> THEN "object" ELSE "other",
                               param |-> IF IsFunctionHead(l) THEN l[4] ELSE NoIdent,
                               type |-> IF IsFunctionHead(l) THEN l[6] ELSE NoIdent,
                               node |-> sub.node])])
             ELSE ReadMembers(lines, i + 1, acc)

\* the object literal exported as API
ExportedObject(text) ==
    LET e == CHOOSE i \in 1..Len(text) : Len(text[i]) > 0 /\ text[i][1] = Tok("export const API =")
    IN  ReadMembers(text, e + 1, NoMembers).node

RECURSIVE Accessors(_)
Accessors(obj) ==
    [verbs |-> [i \in 1..Len(obj.verbs) |-> obj.verbs[i].name],
     children |-> [i \in 1..Len(obj.children) |-> [obj.children[i] EXCEPT !.node = Accessors(@)]]]

\* the accessor structure C8 describes, read off the tree
RECURSIVE ExpectedAccessors(_)
ExpectedAccessors(node) ==
    [verbs |-> VerbList(node),
     children |-> [i \in 1..Len(node.children) |->
        LET seg == node.children[i].node.segment
            dynamic == seg.pre \in {"[", "[..."} /\ seg.suf = "]"
        IN  [key |-> NameTok(toUpperCase(node.children[i].key)),
             kind |-> IF dynamic THEN "function" ELSE "object",
             param |-> IF dynamic THEN <<seg.core>> ELSE NoIdent,
             type |-> IF ~dynamic THEN NoIdent ELSE IF seg.pre = "[..." THEN Tok("string[]") ELSE Tok("string"),
             node |-> ExpectedAccessors(node.children[i].node)]]]

\* C8: the client artifact and the server artifact expose the same accessor
\* structure, the one the tree prescribes: one member per Handler Descriptor named by
\* its verb, one entry per child under the upper-cased key, an object for a static
\* child and a one-parameter function (string for [x], string[] for [...x]) for a
\* dynamic child.
C8_SameAccessorStructure ==
    phase # "start" =>
        /\ Accessors(ExportedObject(lastRaw.client)) = ExpectedAccessors(currentTree)
        /\ Accessors(ExportedObject(lastRaw.server)) = ExpectedAccessors(currentTree)

C8_Witness ==
    /\ phase # "start"
    /\ \E e \in Entries(currentTree) : e.node.segment = nSlug /\ Len(e.node.methods) > 0
    /\ \E e \in Entries(currentTree) : e.node.segment = nId /\ Len(e.node.methods) > 1
    /\ Accessors(ExportedObject(lastRaw.client)) = Accessors(ExportedObject(lastRaw.server))
    /\ Len(Accessors(ExportedObject(lastRaw.server)).children) = 2

-----------------------------------------------------------------------------
(* Paths of the client artifact against the directories *)

\* the directory segments that are neither route groups nor the api collector
Retained(dir) == SelectSeq(dir, LAMBDA n : ~IsGroupName(n) /\ ~IsApiName(n))

ExpectedContribution(n) ==
    IF n.pre = "[..." /\ n.suf = "]" THEN <<"${", n.core, ".join(\"/\")}">>
    ELSE IF n.pre = "[" /\ n.suf = "]" THEN <<"${", n.core, "}">>
    ELSE <<"name", n.pre, n.core, n.suf>>

\* '/' followed by the '/'-joined contributions of the retained segments of dir
ExpectedLiteral(dir) ==
    <<BackTick, Tok("/")>>
    \o JoinToks([i \in 1..Len(Retained(dir)) |-> ExpectedContribution(Retained(dir)[i])], Tok("/"))
    \o <<BackTick>>

\* the accessor keys that lead to the handlers of dir
ExpectedKeys(dir) ==
    [i \in 1..Len(Retained(dir)) |-> NameTok(toUpperCase(StripDecoration(Retained(dir)[i])))]

HasMember(obj, key) == \E i \in 1..Len(obj.children) : obj.children[i].key = key

Member(obj, key) == obj.children[CHOOSE i \in 1..Len(obj.children) : obj.children[i].key = key].node

RECURSIVE HasAccessorAt(_, _)
HasAccessorAt(obj, keys) ==
    IF keys = <<>> THEN TRUE
    ELSE HasMember(obj, Head(keys)) /\ HasAccessorAt(Member(obj, Head(keys)), Tail(keys))

RECURSIVE AccessorAt(_, _)
AccessorAt(obj, keys) == IF keys = <<>> THEN obj ELSE AccessorAt(Member(obj, Head(keys)), Tail(keys))

\* the key paths of the objects that have verb members
RECURSIVE HandlerPaths(_)
HandlerPaths(obj) ==
    (IF Len(obj.verbs) > 0 THEN { <<>> } ELSE {})
    \cup UNION { { <<obj.children[i].key>> \o p : p \in HandlerPaths(obj.children[i].node) }
                 : i \in 1..Len(obj.children) }

\* every fetch of the verb member m of text is a fetch of the path literal lit
FetchesOnly(text, m, lit) ==
    /\ \E i \in m.first..m.last : LineIncludes(text[i], <<Tok("fetch(")>> \o lit \o <<QueryString>>)
    /\ \A i \in m.first..m.last : \A j \in 1..Len(text[i]) :
          text[i][j] = Tok("fetch(") =>
              /\ j + Len(lit) + 1 <= Len(text[i])
              /\ SubSeq(text[i], j + 1, j + Len(lit) + 1) = lit \o <<QueryString>>

DeclaredVerbs(content) == { d.name : d \in Range(content.decls) }

\* no two directories that become nodes of the tree lead to the same key path
NodeDirs(fsv) == { d \in fsv.dirs : Retained(d) # <<>> /\ ~IsGroupName(d[Len(d)]) /\ ~IsApiName(d[Len(d)]) }

CollisionFree(fsv) == \A d, e \in NodeDirs(fsv) : ExpectedKeys(d) = ExpectedKeys(e) => d = e

\* C7: every handler of a tree built by parseRoutes fetches '/' followed by the
\* joined contributions of the retained segments of a directory that declares it and
\* that leads to its accessor; and when no two directories lead to the same keys,
\* the handlers of every directory (route groups nested at any depth) are found under
\* the keys of its retained segments, with that path.
C7_PathFromRetainedSegments ==
    phase # "start" =>
        \E obj \in { ExportedObject(lastRaw.client) } :
            /\ \A p \in HandlerPaths(obj) :
                  \A k \in 1..Len(AccessorAt(obj, p).verbs) :
                      \E d \in DOMAIN fs.files :
                          /\ ExpectedKeys(d) = p
                          /\ AccessorAt(obj, p).verbs[k].name \in DeclaredVerbs(fs.files[d])
                          /\ FetchesOnly(lastRaw.client, AccessorAt(obj, p).verbs[k], ExpectedLiteral(d))
            /\ CollisionFree(fs) =>
                  \A d \in DOMAIN fs.files :
                      /\ HasAccessorAt(obj, ExpectedKeys(d))
                      /\ \A v \in DeclaredVerbs(fs.files[d]) :
                            \E k \in 1..Len(AccessorAt(obj, ExpectedKeys(d)).verbs) :
                                /\ AccessorAt(obj, ExpectedKeys(d)).verbs[k].name = v
                                /\ FetchesOnly(lastRaw.client, AccessorAt(obj, ExpectedKeys(d)).verbs[k],
                                               ExpectedLiteral(d))

C7_Witness ==
    /\ phase # "start"
    /\ CollisionFree(fs)
    /\ DOMAIN fs.files = { <<nGroup, nGroupH, nUsers>>, <<nSlug>>, <<nApi>> }
    /\ HasAccessorAt(ExportedObject(lastRaw.client), <<NameTok(Name("", "USERS", ""))>>)
    /\ TextIncludes(lastRaw.client, <<Tok("fetch("), BackTick, Tok("/"), NameTok(nUsers), BackTick>>)
    /\ TextIncludes(lastRaw.client, <<Tok("fetch("), BackTick, Tok("/"), <<"${", "slug", ".join(\"/\")}">>, BackTick>>)

\* C9: writeSdks run again on the tree the previous run left, with no notification in
\* between, produces the same client text and the same server text.
C9_RegenerateSameText == [][Regenerate => lastRaw' = lastRaw]_vars

\* C10: writeSdks leaves every node, its methods and its imports as they were.
C10_WriteSdksLeavesTree == [][Regenerate => currentTree' = currentTree]_vars

-----------------------------------------------------------------------------
(* Properties of the import aggregator *)

\* the local identifiers a list of ImportSpecs brings into scope, in list order
LocalNames(imports) ==
    Concat([i \in 1..Len(imports) |->
        (IF imports[i].defaultImport # NoIdent THEN <<imports[i].defaultImport>> ELSE <<>>)
        \o (IF imports[i].namespaceImport # NoIdent THEN <<imports[i].namespaceImport>> ELSE <<>>)
        \o [k \in 1..Len(imports[i].namedImports) |-> ImportName(imports[i].namedImports[k])]])

\* a colliding identifier with a numeric suffix appended
HasNumericSuffix(id, n) == Len(id) >= 2 /\ \E occ \in 1..n : id[Len(id)] = ToString(occ)

StartTrees == ParseResults(fs, AddAllRouteFiles(fs), <<>>)

\* C11: whichever of the two emit tasks runs its synchronous part first, writeSdks
\* produces the same client text and the same server text.
C11_EmitOrderIndependent ==
    phase = "start" =>
        \A t \in StartTrees : Texts(writeSdks(t)) = Texts(writeSdksServerFirst(t))

\* C12: after aliasConflictingImports on a list with one ImportSpec per module, all
\* local identifiers are pairwise different, the first occurrence of an identifier
\* keeps its name and a renamed occurrence is its old name with a numeric suffix.
C12_AliasedNamesDistinct ==
    phase = "start" =>
        \A t \in StartTrees :
            \A before \in { LocalNames(combineImports(collectRouteImports(t, <<>>))) } :
            \A after \in { LocalNames(aliasConflictingImports(combineImports(collectRouteImports(t, <<>>)))) } :
                /\ \A i, j \in 1..Len(after) : after[i] = after[j] => i = j
                /\ \A i \in 1..Len(before) :
                      IF \A j \in 1..(i - 1) : before[j] # before[i]
                      THEN after[i] = before[i]
                      ELSE HasNumericSuffix(after[i], Len(before))

NamedPairs(imp) == { <<imp.namedImports[k].name, imp.namedImports[k].alias>> : k \in 1..Len(imp.namedImports) }

\* C13: combineImports returns one ImportSpec per module specifier of its input; the
\* named imports of that spec are, without duplicates, exactly the named imports of
\* the input specs of that module; the spec is type-only only if all of them are.
C13_OneSpecPerModule ==
    phase = "start" =>
        \A t \in StartTrees :
            \A raw \in { collectRouteImports(t, <<>>) } :
            \A combined \in { combineImports(raw) } :
                /\ { combined[i].moduleSpecifier : i \in 1..Len(combined) }
                     = { raw[i].moduleSpecifier : i \in 1..Len(raw) }
                /\ \A i, j \in 1..Len(combined) :
                      combined[i].moduleSpecifier = combined[j].moduleSpecifier => i = j
                /\ \A i \in 1..Len(combined) :
                      \A from \in { { r \in 1..Len(raw) : raw[r].moduleSpecifier = combined[i].moduleSpecifier } } :
                          /\ NamedPairs(combined[i]) = UNION { NamedPairs(raw[r]) : r \in from }
                          /\ Cardinality(NamedPairs(combined[i])) = Len(combined[i].namedImports)
                          /\ combined[i].isTypeOnly => \A r \in from : raw[r].isTypeOnly

\* the identifiers an ImportSpec binds
BoundIdentifiers(imp) ==
    (IF imp.defaultImport # NoIdent THEN {imp.defaultImport} ELSE {})
    \cup (IF imp.namespaceImport # NoIdent THEN {imp.namespaceImport} ELSE {})
    \cup { ImportName(imp.namedImports[k]) : k \in 1..Len(imp.namedImports) }

\* C30: the import line emitted for an aggregated ImportSpec binds every identifier
\* the spec holds, also when the spec carries a namespace import together with a
\* default import or named imports.
C30_ImportLineBindsAll ==
    phase = "start" =>
        \A t \in StartTrees :
            \A combined \in { combineImports(collectRouteImports(t, <<>>)) } :
                \A i \in 1..Len(combined) :
                    \A id \in BoundIdentifiers(combined[i]) :
                        \E j \in 1..Len(formatImport(combined[i])) : formatImport(combined[i])[j] = id

-----------------------------------------------------------------------------
(* Properties of handler analysis and of the emitted members *)

Built == phase \in {"done", "watching"}

\* the Handler Descriptor of verb v in the node built for directory d
HasDescriptor(d, v) ==
    /\ HasNodeAt(currentTree, EventKeys(d))
    /\ \E i \in 1..Len(NodeAt(currentTree, EventKeys(d)).methods) :
          NodeAt(currentTree, EventKeys(d)).methods[i].name = v

Descriptor(d, v) ==
    LET ms == NodeAt(currentTree, EventKeys(d)).methods
    IN  ms[CHOOSE i \in 1..Len(ms) : ms[i].name = v]

IsSuccessStatus(status) == status \in {"200", "201", "202", "204"}

\* C14: a response construction is replaced by its payload when its second argument
\* is absent, has no status or has a success status, and by the thrown-error
\* expression carrying the payload exactly when the status is a non-success number.
C14_UnwrapByStatus ==
    Built =>
        \A d \in DOMAIN fs.files :
            fs.files[d] \in ResponseFiles =>
                \A v \in DOMAIN StatusOfVerb :
                    /\ HasDescriptor(d, v)
                    /\ Descriptor(d, v).handlerCode =
                          IF StatusOfVerb[v] \in {"", "none"} \/ IsSuccessStatus(StatusOfVerb[v])
                          THEN << <<Tok("return")>> \o Payload \o <<Tok(";")>> >>
                          ELSE << <<Tok("return"), ThrowOpen>> \o Payload \o <<ThrowClose, Tok(";")>> >>

\* the lines of the member of verb v under the accessor of directory d
HasMemberLines(text, d, v) ==
    /\ HasAccessorAt(ExportedObject(text), ExpectedKeys(d))
    /\ \E k \in 1..Len(AccessorAt(ExportedObject(text), ExpectedKeys(d)).verbs) :
          AccessorAt(ExportedObject(text), ExpectedKeys(d)).verbs[k].name = v

MemberLines(text, d, v) ==
    LET vs == AccessorAt(ExportedObject(text), ExpectedKeys(d)).verbs
        m == vs[CHOOSE k \in 1..Len(vs) : vs[k].name = v]
    IN  SubSeq(text, m.first, m.last)

\* C15: for a handler that returns NextResponse.redirect with a literal URL, with or
\* without an options argument, the client member assigns exactly that URL to the
\* location and issues no fetch, and the server member calls redirect with exactly
\* that URL and replays nothing of the handler.
C15_RedirectSameUrl ==
    Built =>
        \A d \in DOMAIN fs.files :
            fs.files[d] = FileR =>
                \A v \in {"GET", "POST"} :
                    /\ HasMemberLines(lastRaw.client, d, v)
                    /\ HasMemberLines(lastRaw.server, d, v)
                    /\ TextIncludes(MemberLines(lastRaw.client, d, v),
                                    <<Tok("const url ="), StrTok(RedirectTarget)>>)
                    /\ TextIncludes(MemberLines(lastRaw.client, d, v), <<Tok("window.location.assign(url);")>>)
                    /\ ~TextIncludes(MemberLines(lastRaw.client, d, v), <<Tok("fetch(")>>)
                    /\ TextIncludes(MemberLines(lastRaw.server, d, v),
                                    <<Tok("redirect("), StrTok(RedirectTarget), Tok(");")>>)
                    /\ ~TextIncludes(MemberLines(lastRaw.server, d, v), RedirectCall)

\* the verbs route file content declares in a form the analysis does not support
UnsupportedVerbs(content) ==
    { content.decls[i].name : i \in { j \in 1..Len(content.decls) :
                                        HandlerNode(content, content.decls[j].name) = 0 } }

\* C18: an exported declaration named after a verb that is neither a function
\* declaration nor a constant initialised with an arrow function is skipped: the
\* node keeps no Handler Descriptor for the verb and no artifact has a member for it.
C18_UnsupportedFormSkipped ==
    Built =>
        \A d \in DOMAIN fs.files :
            \A v \in UnsupportedVerbs(fs.files[d]) :
                /\ ~HasDescriptor(d, v)
                /\ ~HasMemberLines(lastRaw.client, d, v)
                /\ ~HasMemberLines(lastRaw.server, d, v)


\* Replay of the body of an emitted server member.  A value is a number, a boolean,
\* null or an array of some length; Throws stands for a ReferenceError or SyntaxError.
Number(n) == [number |-> n]
Boolean(b) == [boolean |-> b]
Array(n) == [length |-> n]
Null == [null |-> TRUE]
Throws == [throws |-> TRUE]

IsNumber(v) == DOMAIN v = {"number"}

NumberOf(digits) == CHOOSE n \in 0..999 : ToString(n) = digits

Min(a, b) == IF a <= b THEN a ELSE b

\* an operand: a numeric literal, null, or a bound identifier
Operand(t, env) ==
    IF IsNum(t) THEN Number(NumberOf(t[2]))
    ELSE IF t = Tok("null") THEN Null
    ELSE IF t \in DOMAIN env THEN env[t]
    ELSE Throws

\* the value of the initialiser e of a const statement
ValueOf(e, env) ==
    LET op(k) == Operand(e[k], env)
    IN  IF Len(e) = 1 THEN op(1)
        ELSE IF Len(e) = 3 /\ e[1] = Tok("Array.from({ length:") /\ IsNum(e[2])
        THEN Array(NumberOf(e[2][2]))
        ELSE IF Len(e) = 3 /\ e[2] = Tok("+") /\ IsNumber(op(1)) /\ IsNumber(op(3))
        THEN Number(op(1).number + op(3).number)
        ELSE IF /\ Len(e) = 7 /\ e[1] = Tok("(") /\ e[3] = Tok("-") /\ e[5] = Tok(")") /\ e[6] = Tok("*")
                /\ IsNumber(op(2)) /\ IsNumber(op(4)) /\ IsNumber(op(7))
        THEN Number((op(2).number - op(4).number) * op(7).number)
        ELSE IF /\ Len(e) = 8 /\ e[2] = Tok(".") /\ e[3] = Tok("slice") /\ e[4] = Tok("(")
                /\ e[6] = Tok(",") /\ e[8] = Tok(")")
                /\ DOMAIN op(1) = {"length"} /\ IsNumber(op(5)) /\ IsNumber(op(7))
                /\ op(5).number >= 0 /\ op(7).number >= op(5).number
        THEN Array(Min(op(7).number, op(1).length) - Min(op(5).number, op(1).length))
        ELSE IF /\ Len(e) = 5 /\ e[2] = Tok("<") /\ e[4] = Tok(".") /\ e[5] = Tok("length")
                /\ IsNumber(op(1)) /\ DOMAIN op(3) = {"length"}
        THEN Boolean(op(1).number < op(3).length)
        ELSE IF /\ Len(e) = 7 /\ e[2] = Tok("?") /\ e[4] = Tok("+") /\ e[6] = Tok(":")
                /\ DOMAIN op(1) = {"boolean"} /\ IsNumber(op(3)) /\ IsNumber(op(5))
        THEN (IF op(1).boolean THEN Number(op(3).number + op(5).number) ELSE op(7))
        ELSE Throws

\* what the statements lines[i..] return in environment env
RECURSIVE Replay(_, _, _)
Replay(lines, i, env) ==
    IF i > Len(lines) THEN Throws
    ELSE LET l == StripIndent(lines[i])
         IN  IF l = <<>> THEN Replay(lines, i + 1, env)
             ELSE IF l = <<Tok("const page = pageParam;")>>
             THEN Replay(lines, i + 1, env @@ (<<"page">> :> env[<<"pageParam">>]))
             ELSE IF Len(l) >= 5 /\ l[1] = Tok("const") /\ l[3] = Tok("=") /\ l[Len(l)] = Tok(";")
             THEN (IF l[2] \in DOMAIN env \/ ValueOf(SubSeq(l, 4, Len(l) - 1), env) = Throws THEN Throws
                   ELSE Replay(lines, i + 1, env @@ (l[2] :> ValueOf(SubSeq(l, 4, Len(l) - 1), env))))
             ELSE IF /\ Len(l) = 7 /\ l[1] = Tok("return") /\ l[2] = Tok("{") /\ l[4] = Tok(",")
                     /\ l[6] = Tok("}") /\ l[7] = Tok(";")
                     /\ l[3] = <<"items">> /\ l[5] = <<"nextPage">>
                     /\ {l[3], l[5]} \subseteq DOMAIN env
                     /\ DOMAIN env[l[3]] = {"length"}
             THEN [items |-> env[l[3]].length, nextPage |-> env[l[5]]]
             ELSE Throws

\* API. ... .GET({}, pageParam) of the server artifact, for the accessor of directory d
CallGet(d, pageParam) ==
    IF ~HasMemberLines(lastRaw.server, d, "GET") THEN Throws
    ELSE LET member == MemberLines(lastRaw.server, d, "GET")
         IN  Replay(SubSeq(member, 2, Len(member) - 1), 1, (<<"pageParam">> :> Number(pageParam)))

PaginatedDirs == { d \in DOMAIN fs.files : fs.files[d] = FileI }

\* C16 as stated: page 1 yields 10 items and a next page, page 5 yields no item and
\* no next page.
C16_PageFiveEmpty ==
    Built =>
        \A d \in PaginatedDirs :
            \A first \in { CallGet(d, 1) } : \A fifth \in { CallGet(d, 5) } :
                /\ first # Throws /\ first.items = 10 /\ first.nextPage # Null
                /\ fifth # Throws /\ fifth.items = 0 /\ fifth.nextPage = Null

\* C16: the server accessor of the paginated GET handler over 50 items with page
\* size 10 returns 10 items for each of the pages 1 to 5 and none beyond, with the
\* following page number as next page on pages 1 to 4 and null from page 5 on.
C16_PageFiveIsLastPage ==
    Built =>
        \A d \in PaginatedDirs :
            \A p \in 1..MaxPage :
                \A r \in { CallGet(d, p) } :
                    /\ r # Throws
                    /\ r.items = (IF p <= 5 THEN 10 ELSE 0)
                    /\ r.nextPage = (IF p < 5 THEN Number(p + 1) ELSE Null)

C16_Witness ==
    /\ Built
    /\ \E d \in PaginatedDirs :
          /\ CallGet(d, 1) = [items |-> 10, nextPage |-> Number(2)]
          /\ CallGet(d, 5) = [items |-> 10, nextPage |-> Null]

\* C17: handler analysis never fails the build: whatever local variables and local
\* functions a handler body declares and calls, determineInputType returns a type or
\* unknown and the build goes on to write the artifacts.
C17_AnalysisNeverFails == phase # "failed"

-----------------------------------------------------------------------------
(* Properties of the watcher's failure handling *)

\* the nodes reached from node by looking up keys one after the other: none when
\* some key has no entry
RECURSIVE Descend(_, _)
Descend(node, keys) ==
    IF keys = <<>> THEN {node}
    ELSE UNION { Descend(node.children[i].node, Tail(keys))
                 : i \in { j \in 1..Len(node.children) : node.children[j].key = Head(keys) } }

\* the oldest notification is for a path below the app directory one of whose
\* ancestor segments has no node in the live tree
AncestorMissing ==
    /\ phase = "watching" /\ ~crashed
    /\ queue # <<>>
    /\ EventKeys(Head(queue).dir) # <<>>
    /\ Descend(currentTree, SubSeq(EventKeys(Head(queue).dir), 1, Len(EventKeys(Head(queue).dir)) - 1)) = {}

\* C19: when handleFileEvent finds no node for an ancestor segment, the event is
\* dropped: the live tree stays as it was, no generation is started and no artifact
\* is written for it, and the watcher goes on to the next notification.
C19_MissingAncestorDropsEvent ==
    [][(AncestorMissing /\ queue' = Tail(queue)) =>
          /\ currentTree' = currentTree
          /\ runs' = runs
          /\ gens' = gens
          /\ lastRaw' = lastRaw
          /\ disk' = disk
          /\ phase' = "watching"
          /\ ~crashed']_vars

\* since the initial build every notification was taken and dropped: none started
\* a generation, none is queued or in progress
C19_Witness ==
    /\ phase = "watching" /\ ~crashed
    /\ nOps >= 1
    /\ queue = <<>> /\ runs = <<>>
    /\ gens = 1
    /\ \E d \in DOMAIN project : Descend(currentTree, EventKeys(d)) = {}

\* C20: in watch mode a failed write of an artifact during a regeneration leaves the
\* watcher running, with no unhandled error.
C20_WriteFailureSurvived ==
    [][(\E i \in 1..Len(runs) : \E which \in {"client", "server"} : WriteFails(i, which))
          => ~crashed']_vars

-----------------------------------------------------------------------------
(* Properties of overlapping notifications *)

\* invocation i passes from its re-parse to writeSdks in this step
ParseResolved(i) ==
    /\ i \in 1..Len(runs) /\ Len(runs') = Len(runs)
    /\ runs[i].pc = "parsing" /\ runs'[i].pc = "writing" /\ runs'[i].dir = runs[i].dir

\* the watcher takes an unlink notification for a directory below the app directory
\* whose parent node is found
UnlinkTaken ==
    /\ phase = "watching" /\ ~crashed
    /\ queue # <<>> /\ queue' = Tail(queue)
    /\ Head(queue).event = "unlink"
    /\ EventKeys(Head(queue).dir) # <<>>
    /\ Descend(currentTree, SubSeq(EventKeys(Head(queue).dir), 1, Len(EventKeys(Head(queue).dir)) - 1)) # {}

\* the directories strictly below dir that hold a route file
RouteDirsBelow(dir) == { c \in DOMAIN fs.files : IsProperPrefix(dir, c) }

\* C24: after an unlink notification for the route file of a non-root directory D,
\* the nodes of D's child directories that still hold route files stay in the live
\* tree under D's key as before, and only D's own handlers are gone.
C24_UnlinkKeepsChildren ==
    [][UnlinkTaken =>
          \A c \in RouteDirsBelow(Head(queue).dir) :
              \A before \in Descend(currentTree, EventKeys(c)) :
                  /\ Descend(currentTree', EventKeys(c)) # {}
                  /\ \A after \in Descend(currentTree', EventKeys(c)) : Shape(after) = Shape(before)]_vars

\* C27: no subtree update is lost: when the re-parse of an invocation for a directory
\* below the app directory resolves, the live tree holds at that directory's keys the
\* node the re-parse returned, whatever other invocations did in the meantime.
C27_NoLostUpdate ==
    [][\A i \in 1..Len(runs) :
          (ParseResolved(i) /\ ~IsRootRun(runs[i])) =>
              /\ Descend(currentTree', RunKeys(runs[i])) # {}
              /\ \A live \in Descend(currentTree', RunKeys(runs[i])) :
                    \E parsed \in ParseResults(fs, project, runs[i].dir) : Shape(live) = Shape(parsed)]_vars

\* C28: once every notification is handled and every regeneration has finished, both
\* artifacts on disk are the formatted texts of the latest emission, which is the
\* emission of the final live tree.
C28_DiskIsLatestEmission ==
    Quiescent => disk = [client |-> formatCode(lastRaw.client), server |-> formatCode(lastRaw.server)]

\* C29: a re-parse never fails because of a route.ts that is on disk but not yet in
\* the project: a step that ends the re-parse of an invocation leaves the watcher alive.
C29_ReparseCompletes ==
    [][\A i \in 1..Len(runs) :
          (runs[i].pc = "parsing" /\ Len(runs') = Len(runs) - 1 /\ runs' = RemoveAt(runs, i)) => ~crashed']_vars

-----------------------------------------------------------------------------
(* Properties of the classification of directory names *)

\* the keys under which parseRoutes stores the node of dir, segment by segment:
\* a segment that MergeChild flattens contributes no key
BuilderKeys(dir) ==
    LET kept == SelectSeq(dir, LAMBDA seg : ~(toLowerCase(seg) = nApi)
                                            /\ ~(startsWithParen(seg) /\ endsWithParen(seg)))
    IN  [i \in 1..Len(kept) |-> KeyOfSegment(kept[i])]

\* C23: every component classifies a directory name by the same rule; in
\* particular the keys handleFileEvent computes for the directory of a queued
\* notification are the keys under which the tree builder stores that directory
\* (route groups and api in any letter case contribute no key).
C23_SameClassification ==
    \A i \in 1..Len(queue) : EventKeys(queue[i].dir) = BuilderKeys(queue[i].dir)

-----------------------------------------------------------------------------
(* Properties of the general case of the server emitter *)

\* the verbs of directory d whose server member is built by the general case
GeneralVerbs(d) ==
    { v \in {"GET", "POST"} :
        /\ HasDescriptor(d, v)
        /\ ~TextIncludes(Descriptor(d, v).handlerCode, RedirectCall)
        /\ ~TextIncludes(Descriptor(d, v).handlerCode, UseInfinite) }

\* the lines of the handler that the member replays
ReplayedBody(m) ==
    SelectSeq(m.handlerCode, LAMBDA line : /\ ~LineIncludes(line, UseMutation)
                                           /\ (m.name # "GET" => ~LineIncludes(line, JsonCall)))

RequestName(m) == IF m.paramName = NoIdent THEN <<"req">> ELSE m.paramName

Access(m, member) == <<RequestName(m), Tok("."), Tok(member)>>

ReferencesQuery(m) ==
    \/ TextIncludesName(ReplayedBody(m), <<"searchParams">>)
    \/ TextIncludes(ReplayedBody(m), Access(m, "nextUrl"))

SyntheticRequest(m) ==
    <<Tok("const"), RequestName(m),
      Tok(": any = { url: 'http://localhost' + (searchParams ? '?' + new URLSearchParams(searchParams) : ''), nextUrl: { searchParams: new URLSearchParams(searchParams) } };")>>

\* no access to the headers or cookies of the request is left in the member
AccessesReplaced(m, lines) ==
    /\ ~TextIncludes(lines, Access(m, "headers"))
    /\ ~TextIncludes(lines, Access(m, "cookies"))

\* an awaited accessor is declared exactly when the replayed body has such an access
AccessorsDeclared(m, lines) ==
    /\ TextIncludes(lines, <<Tok("const headersVal = await nextHeaders();")>>)
          <=> TextIncludes(ReplayedBody(m), Access(m, "headers"))
    /\ TextIncludes(lines, <<Tok("const cookiesVal = await nextCookies();")>>)
          <=> TextIncludes(ReplayedBody(m), Access(m, "cookies"))

\* the searchParams option and the synthetic request are emitted exactly when the
\* replayed body references searchParams or the nextUrl of the request
QueryEmitted(m, lines) ==
    /\ LineIncludes(lines[1], <<SearchParamsProp>>) <=> ReferencesQuery(m)
    /\ TextIncludes(lines, SyntheticRequest(m)) <=> ReferencesQuery(m)

\* C26: in a member built by the general case of the server emitter, every access
\* to the headers and to the cookies of the request parameter is replaced by
\* headersVal and cookiesVal, each awaited accessor is declared exactly when the
\* replayed body has such an access, and the searchParams option and the synthetic
\* request are emitted exactly when the replayed body references searchParams or
\* the nextUrl of the request parameter.
C26_AccessesSubstituted ==
    Built =>
        \A d \in DOMAIN fs.files : \A v \in GeneralVerbs(d) :
            /\ HasMemberLines(lastRaw.server, d, v)
            /\ \A m \in { Descriptor(d, v) } : \A lines \in { MemberLines(lastRaw.server, d, v) } :
                  /\ AccessesReplaced(m, lines)
                  /\ AccessorsDeclared(m, lines)
                  /\ QueryEmitted(m, lines)

-----------------------------------------------------------------------------
(* Properties of the members of the client emitter *)

\* the members named v under the accessor of directory d
MembersOf(text, d, v) ==
    IF HasAccessorAt(ExportedObject(text), ExpectedKeys(d))
    THEN { k \in 1..Len(AccessorAt(ExportedObject(text), ExpectedKeys(d)).verbs) :
             AccessorAt(ExportedObject(text), ExpectedKeys(d)).verbs[k].name = v }
    ELSE {}

FetchOf(d, init) == <<Tok("fetch(")>> \o ExpectedLiteral(d) \o <<QueryString>> \o init \o <<Tok(")")>>

InitVerb(v) == <<Tok(", { method:"), StrTok(v), Tok("}")>>

InitVerbAndBody(v) ==
    <<Tok(", { method:"), StrTok(v), Tok(", headers: {'Content-Type':'application/json'}, body: JSON.stringify(body) }")>>

\* the request init of the verb and the payload
ExpectedInit(m) == IF m.name = "GET" THEN <<>> ELSE IF usesBody(m) THEN InitVerbAndBody(m.name) ELSE InitVerb(m.name)

Navigates(lines) ==
    /\ TextIncludes(lines, <<Tok("window.location.assign(url);")>>)
    /\ ~TextIncludes(lines, <<Tok("fetch(")>>)

ReadsStream(lines, d, m) ==
    /\ TextIncludes(lines, FetchOf(d, ExpectedInit(m)))
    /\ TextIncludes(lines, <<Tok("const reader = res.body!.getReader();")>>)
    /\ ~TextIncludes(lines, <<Tok("useQuery<")>>)
    /\ ~TextIncludes(lines, <<Tok("useMutation<")>>)
    /\ ~TextIncludes(lines, <<Tok("window.location.assign(url);")>>)

ReadAccessor(lines, d, m) ==
    /\ TextIncludes(lines, <<Tok("useQuery<")>> \o m.returnType
                           \o <<Tok(", unknown>(["), StrTok(m.name), Tok(",")>> \o ExpectedLiteral(d)
                           \o <<Tok(", searchParams], () =>")>> \o FetchOf(d, <<>>))
    /\ ~TextIncludes(lines, <<Tok("useMutation<")>>)
    /\ ~TextIncludes(lines, <<Tok("const reader = res.body!.getReader();")>>)

WriteAccessor(lines, d, m) ==
    /\ TextIncludes(lines, <<Tok("useMutation<")>> \o m.returnType)
    /\ TextIncludes(lines, FetchOf(d, ExpectedInit(m)))
    /\ ~TextIncludes(lines, <<Tok("useQuery<")>>)
    /\ ~TextIncludes(lines, <<Tok("const reader = res.body!.getReader();")>>)

\* C21: every Handler Descriptor has exactly one member in the client artifact, of
\* the form of the first case that applies: redirect (navigation, no fetch), then
\* streaming return type (a reader of a fetch), then GET (useQuery keyed by verb,
\* path and searchParams over a fetch without init), then non-GET without payload
\* (useMutation over a fetch with the verb only), then non-GET with payload
\* (useMutation over a fetch with the verb, the JSON content type and the body).
C21_FirstApplicableForm ==
    Built =>
        \A d \in DOMAIN fs.files : \A v \in Verbs :
            HasDescriptor(d, v) =>
                /\ Cardinality(MembersOf(lastRaw.client, d, v)) = 1
                /\ \A m \in { Descriptor(d, v) } : \A lines \in { MemberLines(lastRaw.client, d, v) } :
                      IF TextIncludes(m.handlerCode, RedirectCall) THEN Navigates(lines)
                      ELSE IF m.returnType # <<>> /\ Head(m.returnType) = Tok("ReadableStream")
                      THEN ReadsStream(lines, d, m)
                      ELSE IF v = "GET" THEN ReadAccessor(lines, d, m)
                      ELSE WriteAccessor(lines, d, m)

\* a build over a streaming route file, a redirecting one and one with a payload
C21_Witness ==
    /\ Built
    /\ \E d, e, f \in DOMAIN fs.files :
          /\ fs.files[d] = FileStream /\ fs.files[e] = FileR /\ fs.files[f] = FileB2
          /\ \A v \in {"GET", "POST", "DELETE"} :
                /\ HasDescriptor(d, v)
                /\ HasMemberLines(lastRaw.client, d, v)
                /\ ReadsStream(MemberLines(lastRaw.client, d, v), d, Descriptor(d, v))
          /\ HasMemberLines(lastRaw.client, e, "GET")
          /\ Navigates(MemberLines(lastRaw.client, e, "GET"))
          /\ HasMemberLines(lastRaw.client, f, "POST")
          /\ TextIncludes(MemberLines(lastRaw.client, f, "POST"), FetchOf(f, InitVerbAndBody("POST")))

-----------------------------------------------------------------------------
(* Properties of the payload: the body option and the inferred input type *)

\* the declaration of verb v in route file content
SourceDecl(content, v) ==
    content.decls[CHOOSE k \in 1..Len(content.decls) : content.decls[k].name = v]

RequestOf(decl) == IF decl.paramName = NoIdent THEN <<"req">> ELSE decl.paramName

\* the handler reads the JSON body of its request
ReadsPayload(decl) ==
    TextIncludes(decl.handlerCode, <<RequestOf(decl), Tok("."), Tok("json"), Tok("("), Tok(")")>>)

\* the options type of the member declares a body field
HasBodyField(lines) == LineIncludes(lines[1], <<Tok("body:")>>)

BodyFieldTyped(lines, type) == LineIncludes(lines[1], <<Tok("body:")>> \o type)

\* C22: in both artifacts the options type of a member has a body field only when
\* the handler reads the JSON body of its request, and then typed with the inferred
\* input type; a handler other than GET whose payload is validated by a schema has
\* a required body field of the validated shape; a handler that never reads the
\* payload of its request has no body field.
C22_BodyOnlyWhenPayloadRead ==
    Built =>
        \A d \in DOMAIN fs.files : \A v \in Verbs :
            (HasDescriptor(d, v) /\ ~TextIncludes(Descriptor(d, v).handlerCode, RedirectCall)) =>
                \A decl \in { SourceDecl(fs.files[d], v) } :
                \A text \in { lastRaw.client, lastRaw.server } :
                    /\ HasMemberLines(text, d, v)
                    /\ \A lines \in { MemberLines(text, d, v) } :
                          /\ HasBodyField(lines) => ReadsPayload(decl)
                          /\ HasBodyField(lines) => BodyFieldTyped(lines, Descriptor(d, v).inputType)
                          /\ (v # "GET" /\ ReadsPayload(decl) /\ decl.input # tUnknown)
                                => BodyFieldTyped(lines, decl.input)

\* the type lists every property of accesses exactly once
IsRecordOf(type, accesses) ==
    /\ Len(type) >= 2 /\ type[1] = Tok("{") /\ type[Len(type)] = Tok("}")
    /\ \A a \in Range(accesses) :
          Cardinality({ i \in 1..(Len(type) - 1) : type[i] = a.name /\ type[i + 1] = Tok(":") }) = 1
    /\ Cardinality({ i \in 1..Len(type) : type[i] = Tok(":") })
          = Cardinality({ a.name : a \in Range(accesses) })
    /\ \A i \in 1..(Len(type) - 1) :
          type[i + 1] = Tok(":") => \E a \in Range(accesses) : a.name = type[i] /\ type[i + 2] = Head(a.type)

\* a local function with an annotated first parameter is called with the payload variable
HelperCalls(decl) ==
    { k \in 1..Len(decl.calls) : decl.calls[k].params > 0 /\ decl.calls[k].typeNode # <<>> /\ decl.calls[k].bodyArg }

\* C25: the input type of a Handler Descriptor is the result of the first stage
\* that succeeds, in the order: the type a validator call on the payload variable
\* resolves; the annotation of the first parameter of a local function called
\* with the payload variable; the record type that lists every property observed
\* on the payload variable exactly once; unknown (void for GET).  The result of a
\* later stage is never the input type when an earlier stage succeeds.
C25_FirstStageWins ==
    Built =>
        \A d \in DOMAIN fs.files : \A v \in Verbs :
            HasDescriptor(d, v) =>
                \A decl \in { SourceDecl(fs.files[d], v) } : \A type \in { Descriptor(d, v).inputType } :
                    IF decl.paramName = NoIdent THEN type = (IF v = "GET" THEN tVoid ELSE tUnknown)
                    ELSE IF ReadsPayload(decl) /\ decl.input # tUnknown THEN type = decl.input
                    ELSE IF HelperCalls(decl) # {}
                    THEN type = decl.calls[CHOOSE k \in HelperCalls(decl) : \A j \in HelperCalls(decl) : k <= j].typeNode
                    ELSE IF ReadsPayload(decl) /\ decl.props # <<>> THEN IsRecordOf(type, decl.props)
                    ELSE type = (IF v = "GET" THEN tVoid ELSE tUnknown)

\* a build over the route file whose handlers succeed at the first, the second,
\* the third and at no stage
C25_Witness ==
    /\ Built
    /\ \E d \in DOMAIN fs.files :
          /\ fs.files[d] = FileStages
          /\ \A v \in {"POST", "PUT", "PATCH", "DELETE"} : HasDescriptor(d, v)
          /\ Descriptor(d, "POST").inputType = tContact
          /\ Descriptor(d, "PUT").inputType = <<tItem>>
          /\ IsRecordOf(Descriptor(d, "PATCH").inputType, PriceUsage)
          /\ Descriptor(d, "DELETE").inputType = tUnknown

=============================================================================
